---- MODULE Spec2Model ----
(***************************************************************************)
(* State-machine model of vox-brain-v2: the project registry and cache     *)
(* (SQLite), the vector store (Postgres, tables vox_symbols and            *)
(* vox_textdata), the legacy core store (table symbols_v2) and the         *)
(* VoxManager operations built on them.                                    *)
(*                                                                         *)
(* Strings whose characters matter (names, code, content, query text) are  *)
(* tuples of one-character strings; identifiers that are only compared     *)
(* for equality (project ids, keys, paths) are plain strings.              *)
(***************************************************************************)
EXTENDS Integers, Sequences, FiniteSets, Bags, TLC

VARIABLES
    projects,      \* SQLite table projects: set of [id, name, path]
    next_uuid,     \* number of ids uuid4() has handed out so far
    documents,     \* SQLite table documents: set of [id, project_id, type, title, content, file_path]
    next_doc,      \* AUTOINCREMENT sequence of documents.id
    cache,         \* SQLite table cache: set of [project_id, key, value]
    vox_symbols,   \* Postgres table vox_symbols: bag of rows
    vox_textdata,  \* Postgres table vox_textdata: bag of rows
    symbols_v2,    \* Postgres table symbols_v2 of core.storage.Storage: bag of rows
    fs,            \* the file system: what each project root currently holds
    last,          \* the last completed call: its name, arguments and outcome
    pc,            \* position of each concurrent VoxManager invocation
    loc            \* local variables of each concurrent VoxManager invocation

vars == <<projects, next_uuid, documents, next_doc, cache, vox_symbols,
          vox_textdata, symbols_v2, fs, last, pc, loc>>

registryVars == <<projects, next_uuid, documents, next_doc>>
vectorVars == <<vox_symbols, vox_textdata>>
procVars == <<pc, loc>>

-----------------------------------------------------------------------------
(* Bounds of the model *)

\* most rows the three vector tables hold together
MaxRows == 2
\* most projects ever registered (ids handed out by uuid4)
MaxProjects == 2
\* most documents ever added (values of the AUTOINCREMENT sequence)
MaxDocs == 1

-----------------------------------------------------------------------------
(* Python values *)

None == "None"

\* None where a character string is expected: a tuple that is no character string
NoneS == <<"None">>

\* a key a dict does not have
Absent == <<"absent">>

\* Python truthiness of an Optional[str] argument: None and "" are falsy
Truthy(x) == x # None /\ x # ""

\* the same for a character string
TruthyS(s) == s # NoneS /\ s # <<>>

Min(a, b) == IF a <= b THEN a ELSE b

Abs(x) == IF x < 0 THEN -x ELSE x

-----------------------------------------------------------------------------
(* Character strings *)

NL == <<"\n">>

Lower(c) ==
    CASE c = "A" -> "a"
      [] c = "M" -> "m"
      [] c = "R" -> "r"
      [] c = "S" -> "s"
      [] c = "C" -> "c"
      [] c = "T" -> "t"
      [] OTHER -> c

RECURSIVE StartsWith(_, _)
StartsWith(s, p) ==
    IF p = <<>> THEN TRUE
    ELSE IF s = <<>> THEN FALSE
    ELSE Head(s) = Head(p) /\ StartsWith(Tail(s), Tail(p))

\* Python's `q in s` and SQL's position(q in s) > 0: q is a substring of s
RECURSIVE Contains(_, _)
Contains(s, q) ==
    IF StartsWith(s, q) THEN TRUE
    ELSE IF s = <<>> THEN FALSE
    ELSE Contains(Tail(s), q)

\* SQL `s ILIKE p`: case-insensitive match of the whole of s against the
\* pattern p, where % stands for any run of characters and _ for any one
RECURSIVE ILike(_, _)
ILike(s, p) ==
    IF p = <<>> THEN s = <<>>
    ELSE IF Head(p) = "%" THEN
        ILike(s, Tail(p)) \/ (s # <<>> /\ ILike(Tail(s), p))
    ELSE IF s = <<>> THEN FALSE
    ELSE IF Head(p) = "_" THEN ILike(Tail(s), Tail(p))
    ELSE Lower(Head(s)) = Lower(Head(p)) /\ ILike(Tail(s), Tail(p))

\* SQL `s LIKE p` (case-sensitive)
RECURSIVE Like(_, _)
Like(s, p) ==
    IF p = <<>> THEN s = <<>>
    ELSE IF Head(p) = "%" THEN
        Like(s, Tail(p)) \/ (s # <<>> /\ Like(Tail(s), p))
    ELSE IF s = <<>> THEN FALSE
    ELSE IF Head(p) = "_" THEN Like(Tail(s), Tail(p))
    ELSE Head(s) = Head(p) /\ Like(Tail(s), Tail(p))

-----------------------------------------------------------------------------
(* Bags of rows.  No query reads or orders by the SERIAL id of a row, so a  *)
(* table is the bag of its rows without the id.                             *)

\* the rows of a bag, one element <<row, k>> per copy
Copies(B) == UNION {{<<r, k>> : k \in 1..CopiesIn(r, B)} : r \in BagToSet(B)}

\* the bag left when the rows satisfying Del are deleted
BagDelete(B, Del(_)) ==
    LET keep == {r \in BagToSet(B) : ~Del(r)}
    IN  [r \in keep |-> CopiesIn(r, B)]

\* mutant: a row that is already in the table is not inserted again
BagAdd_once(B, r) == IF BagIn(r, B) THEN B ELSE B (+) SetToBag({r})

\* the bag with one more copy of row r
BagAdd(B, r) == B (+) SetToBag({r})

\* every ordering of the finite set S
Orderings(S) ==
    {f \in [1..Cardinality(S) -> S] : \A i, j \in 1..Cardinality(S) : i # j => f[i] # f[j]}

-----------------------------------------------------------------------------
(* String constants of the source *)

StrSymbol == <<"S", "y", "m", "b", "o", "l", ":", " ">>
StrType == <<"T", "y", "p", "e", ":", " ">>
StrCode == <<"C", "o", "d", "e", ":">>
StrTitle == <<"T", "i", "t", "l", "e", ":", " ">>
StrMeta == <<"M", "e", "t", "a">>
StrAppConfig == <<"A", "p", "p", "C", "o", "n", "f", "i", "g">>
StrTestsPattern == <<"t", "e", "s", "t", "s", "/", "%">>
StrSymbolSource == <<"s", "y", "m", "b", "o", "l">>
StrTextSource == <<"t", "e", "x", "t">>
StrUnknown == <<"u", "n", "k", "n", "o", "w", "n">>

-----------------------------------------------------------------------------
(* Inputs: the values the operations are called with *)

NameRun == <<"r", "u", "n">>
NameRunner == <<"r", "u", "n", "n", "e", "r">>
NameX == <<"x">>
FileA == <<"a", ".", "p", "y">>
FileTest == <<"t", "e", "s", "t", "s", "/", "t", ".", "p", "y">>
TypeFunction == <<"f", "u", "n", "c", "t", "i", "o", "n">>
TypeClass == <<"c", "l", "a", "s", "s">>
TypeRule == <<"r", "u", "l", "e">>
TypeNote == <<"n", "o", "t", "e">>
TypeMarkdown == <<"m", "a", "r", "k", "d", "o", "w", "n">>

\* Symbol objects (vox_unified.models.Symbol and core.models.Symbol)
SymRun == [name |-> NameRun, type |-> TypeFunction, file_path |-> FileA,
           start_line |-> 0, end_line |-> 1, code |-> <<"d", "e", "f", " ", "r", "u", "n">>,
           parent |-> NoneS, docstring |-> NoneS]
SymRunner == [name |-> NameRunner, type |-> TypeClass, file_path |-> FileA,
              start_line |-> 2, end_line |-> 3, code |-> <<"r", "u", "n", "(", ")">>,
              parent |-> NoneS, docstring |-> NoneS]
SymX == [name |-> NameX, type |-> TypeFunction, file_path |-> FileTest,
         start_line |-> 4, end_line |-> 5, code |-> <<"y">>,
         parent |-> NameRunner, docstring |-> NoneS]
SymMeta == [name |-> StrMeta, type |-> TypeClass, file_path |-> FileA,
            start_line |-> 6, end_line |-> 7, code |-> <<"r", "u", "n">>,
            parent |-> NoneS, docstring |-> NoneS]

\* what a caller saves: a symbol with the embedding the provider gave for it
SymbolInputs == {<<SymRun, 0>>, <<SymRunner, 1>>, <<SymX, 1>>}
CoreSymbolInputs == {<<SymRun, 0>>, <<SymRunner, 1>>, <<SymX, 0>>, <<SymMeta, 0>>}

\* text chunks as save_text_chunks receives them: dicts with "content" and,
\* optionally, "type"
ChunkRunNote == [content |-> <<"r", "u", "n", " ", "i", "t">>, type |-> TypeNote]
ChunkStopNote == [content |-> <<"s", "t", "o", "p">>, type |-> TypeNote]
ChunkStopRule == [content |-> <<"s", "t", "o", "p">>, type |-> TypeRule]
\* a chunk with the embedding the provider gave for it
ChunkInputs == {<<ChunkRunNote, 0>>, <<ChunkStopNote, 1>>, <<ChunkStopRule, 0>>}

\* query texts
QueryRun == <<"r", "u", "n">>
QueryRunner == <<"R", "u", "n", "n", "e", "r", " ", "x">>
\* a word in which _ stands, the wildcard of LIKE
QueryWild == <<"r", "u", "n", "_">>
Queries == {QueryRun, QueryRunner, QueryWild}

\* project ids rows are saved under, and the project_id arguments of a search
ProjectIds == {"p1", "p2"}
SearchProjectIds == ProjectIds \cup {None, ""}

\* embeddings are points on a line, two of them; LIMIT is 1 or 2
Embeddings == {0, 1}
Limits == {1, 2}

-----------------------------------------------------------------------------
(* Gatherer (src/vox_unified/gatherer.py) *)

\* the item scan_project builds for a symbol: display_content and metadata
SymbolItem(s, relative_path) ==
    [content |-> StrSymbol \o s.name \o NL \o StrType \o s.type \o NL
                    \o StrCode \o NL \o s.code,
     file_path |-> relative_path,
     type |-> StrSymbolSource,
     metadata |-> [name |-> s.name, symbol_type |-> s.type,
                   start_line |-> s.start_line, end_line |-> s.end_line]]

-----------------------------------------------------------------------------
(* VectorStorage (src/vox_unified/datalayer.py) *)

\* embedding <=> query: the cosine distance of pgvector, here the distance
\* of two points on a line
Distance(e, q) == Abs(e - q)

SymbolRow(symbol, project_id, embedding) ==
    [project_id |-> project_id, name |-> symbol.name, symbol_type |-> symbol.type,
     code |-> symbol.code, embedding |-> embedding, file_path |-> symbol.file_path]

\* save_symbols: one INSERT per symbol, symbol i with embeddings[i]; an
\* embeddings list that is too short raises IndexError and the transaction
\* is rolled back
RECURSIVE InsertSymbols(_, _, _, _)
InsertSymbols(table, symbols, project_id, embeddings) ==
    IF symbols = <<>> THEN table
    ELSE InsertSymbols(BagAdd(table, SymbolRow(Head(symbols), project_id, Head(embeddings))),
                       Tail(symbols), project_id, Tail(embeddings))

save_symbols_raises(symbols, embeddings) == Len(embeddings) < Len(symbols)

save_symbols(table, symbols, project_id, embeddings) ==
    IF save_symbols_raises(symbols, embeddings) THEN table
    ELSE InsertSymbols(table, symbols, project_id, SubSeq(embeddings, 1, Len(symbols)))

ChunkType(chunk) == IF chunk.type = Absent THEN StrUnknown ELSE chunk.type

TextRow(chunk, project_id, embedding) ==
    [project_id |-> project_id, content |-> chunk.content, embedding |-> embedding,
     source_type |-> ChunkType(chunk)]

RECURSIVE InsertChunks(_, _, _, _)
InsertChunks(table, chunks, project_id, embeddings) ==
    IF chunks = <<>> THEN table
    ELSE InsertChunks(BagAdd(table, TextRow(Head(chunks), project_id, Head(embeddings))),
                      Tail(chunks), project_id, Tail(embeddings))

save_text_chunks_raises(chunks, embeddings) == Len(embeddings) < Len(chunks)

save_text_chunks(table, chunks, project_id, embeddings) ==
    IF save_text_chunks_raises(chunks, embeddings) THEN table
    ELSE InsertChunks(table, chunks, project_id, SubSeq(embeddings, 1, Len(chunks)))

\* mutant: the project filter is never added to the WHERE clause
ProjectFilter_never(row, project_id) == TRUE

\* WHERE 1=1 [AND project_id = %s]: the filter is added only `if project_id`
ProjectFilter(row, project_id) == Truthy(project_id) => row.project_id = project_id

\* ORDER BY (name ILIKE q) DESC, (name ILIKE q%) DESC, distance ASC:
\* row a may stand before row b
SymbolOrder(a, b, query_text, query_embedding) ==
    LET exactA == ILike(a.name, query_text)
        exactB == ILike(b.name, query_text)
        startA == ILike(a.name, query_text \o <<"%">>)
        startB == ILike(b.name, query_text \o <<"%">>)
    IN  IF exactA # exactB THEN exactA
        ELSE IF startA # startB THEN startA
        ELSE Distance(a.embedding, query_embedding) <= Distance(b.embedding, query_embedding)

\* ORDER BY distance ASC
TextOrder(a, b, query_embedding) ==
    Distance(a.embedding, query_embedding) <= Distance(b.embedding, query_embedding)

\* the result sets a SELECT ... WHERE Keep ORDER BY Order LIMIT limit can
\* return: rows that tie under Order come in any order
SelectRows(table, Keep(_), Order(_, _), limit) ==
    LET hits == {c \in Copies(table) : Keep(c[1])}
        sorted == {f \in Orderings(hits) :
                      \A i, j \in 1..Cardinality(hits) : i < j => Order(f[i][1], f[j][1])}
    IN  {[i \in 1..Min(limit, Cardinality(hits)) |-> f[i][1]] : f \in sorted}

search_symbols_rows(table, query_text, query_embedding, project_id, limit) ==
    LET Keep(r) == ProjectFilter(r, project_id)
        Order(a, b) == SymbolOrder(a, b, query_text, query_embedding)
    IN  SelectRows(table, Keep, Order, limit)

search_text_rows(table, query_embedding, project_id, limit) ==
    LET Keep(r) == ProjectFilter(r, project_id)
        Order(a, b) == TextOrder(a, b, query_embedding)
    IN  SelectRows(table, Keep, Order, limit)

\* the SearchResult built from a row of vox_symbols
SymbolResult(row, query_embedding) ==
    [content |-> StrSymbol \o row.name \o NL \o StrCode \o NL \o row.code,
     source |-> IF TruthyS(row.file_path) THEN row.file_path ELSE StrSymbolSource,
     relevance |-> 1 - Distance(row.embedding, query_embedding),
     type |-> "symbolic",
     metadata |-> row.name]

\* the SearchResult built from a row of vox_textdata
TextResult(row, query_embedding) ==
    [content |-> row.content,
     source |-> IF TruthyS(row.source_type) THEN row.source_type ELSE StrTextSource,
     relevance |-> 1 - Distance(row.embedding, query_embedding),
     type |-> "text",
     metadata |-> <<>>]

\* delete_project_data: DELETE FROM <table> WHERE project_id = %s, on both tables
delete_project_data_symbols(table, project_id) ==
    LET Del(r) == r.project_id = project_id IN BagDelete(table, Del)

\* mutant: the DELETE on the text table has lost its WHERE clause
delete_project_data_text_all(table, project_id) == EmptyBag

delete_project_data_text(table, project_id) ==
    LET Del(r) == r.project_id = project_id IN BagDelete(table, Del)

-----------------------------------------------------------------------------
(* Storage of the legacy engine (src/core/storage.py) *)

IsSpace(c) == c \in {" ", "\n", "\t"}

\* str.split(): the maximal runs of non-whitespace characters, in order
RECURSIVE SplitFrom(_, _, _)
SplitFrom(s, word, done) ==
    IF s = <<>> THEN (IF word = <<>> THEN done ELSE Append(done, word))
    ELSE IF IsSpace(Head(s)) THEN
        SplitFrom(Tail(s), <<>>, IF word = <<>> THEN done ELSE Append(done, word))
    ELSE SplitFrom(Tail(s), Append(word, Head(s)), done)

Split(s) == SplitFrom(s, <<>>, <<>>)

\* words = [w.strip() for w in query_text.split() if len(w) > 3]
QueryWords(query_text) == SelectSeq(Split(query_text), LAMBDA w : Len(w) > 3)

CoreRow(symbol, project_id, embedding) ==
    [project_id |-> project_id, name |-> symbol.name, symbol_type |-> symbol.type,
     file_path |-> symbol.file_path, start_line |-> symbol.start_line,
     end_line |-> symbol.end_line, code |-> symbol.code, docstring |-> symbol.docstring,
     parent_name |-> symbol.parent, embedding |-> embedding]

RECURSIVE InsertCoreSymbols(_, _, _, _)
InsertCoreSymbols(table, symbols, project_id, embeddings) ==
    IF symbols = <<>> THEN table
    ELSE InsertCoreSymbols(BagAdd(table, CoreRow(Head(symbols), project_id, Head(embeddings))),
                           Tail(symbols), project_id, Tail(embeddings))

\* Storage.save_symbols raises ValueError without a project id, IndexError
\* when the embeddings list is too short
core_save_symbols_raises(symbols, embeddings, project_id) ==
    ~Truthy(project_id) \/ Len(embeddings) < Len(symbols)

core_save_symbols(table, symbols, embeddings, project_id) ==
    IF core_save_symbols_raises(symbols, embeddings, project_id) THEN table
    ELSE InsertCoreSymbols(table, symbols, project_id, SubSeq(embeddings, 1, Len(symbols)))

\* CASE WHEN (name ILIKE %w1% OR ...) THEN 0 ELSE 1 END; without words ELSE 1
NamePriority(row, query_text) ==
    LET words == QueryWords(query_text)
    IN  IF \E i \in 1..Len(words) : ILike(row.name, <<"%">> \o words[i] \o <<"%">>)
        THEN 0 ELSE 1

\* WHERE [project_id = %s AND] name NOT IN ('Meta', 'AppConfig')
\*       AND file_path NOT LIKE 'tests/%'
HybridFilter(row, project_id) ==
    /\ ProjectFilter(row, project_id)
    /\ row.name \notin {StrMeta, StrAppConfig}
    /\ ~Like(row.file_path, StrTestsPattern)

\* mutant: ORDER BY distance ASC alone
HybridOrder_distance(a, b, query_text, query_embedding) ==
    Distance(a.embedding, query_embedding) <= Distance(b.embedding, query_embedding)

\* ORDER BY name_priority ASC, distance ASC
HybridOrder(a, b, query_text, query_embedding) ==
    LET pa == NamePriority(a, query_text)
        pb == NamePriority(b, query_text)
    IN  IF pa # pb THEN pa < pb
        ELSE Distance(a.embedding, query_embedding) <= Distance(b.embedding, query_embedding)

search_hybrid_rows(table, query_text, query_embedding, limit, project_id) ==
    LET Keep(r) == HybridFilter(r, project_id)
        Order(a, b) == HybridOrder(a, b, query_text, query_embedding)
    IN  SelectRows(table, Keep, Order, limit)

\* the tuple fetchall() returns for a row of symbols_v2
HybridResult(row, query_text, query_embedding) ==
    [name |-> row.name, symbol_type |-> row.symbol_type, file_path |-> row.file_path,
     project_id |-> row.project_id, project_path |-> NoneS, code |-> row.code,
     docstring |-> row.docstring,
     distance |-> Distance(row.embedding, query_embedding),
     name_priority |-> NamePriority(row, query_text)]

-----------------------------------------------------------------------------
(* The store-level specification: the operations of VectorStorage and of   *)
(* core Storage called directly, with every argument drawn from the inputs *)

RowCount == BagCardinality(vox_symbols) + BagCardinality(vox_textdata)
                + BagCardinality(symbols_v2)

\* the batches saved in one call: each input alone, and one batch of two
SymbolBatches == {<<x>> : x \in SymbolInputs} \cup {<<<<SymRun, 0>>, <<SymX, 1>>>>}
ChunkBatches == {<<x>> : x \in ChunkInputs} \cup {<<<<ChunkRunNote, 0>>, <<ChunkStopNote, 1>>>>}
CoreBatches == {<<x>> : x \in CoreSymbolInputs} \cup {<<<<SymRun, 0>>, <<SymRunner, 1>>>>}

Items(batch) == [i \in 1..Len(batch) |-> batch[i][1]]
ItemEmbeddings(batch) == [i \in 1..Len(batch) |-> batch[i][2]]

Results(rows, Build(_)) == [i \in 1..Len(rows) |-> Build(rows[i])]

NoCall == [op |-> "none"]

InitStore ==
    /\ projects = {}
    /\ next_uuid = 0
    /\ documents = {}
    /\ next_doc = 0
    /\ cache = {}
    /\ vox_symbols = EmptyBag
    /\ vox_textdata = EmptyBag
    /\ symbols_v2 = EmptyBag
    /\ fs = <<>>
    /\ last = NoCall
    /\ pc = <<>>
    /\ loc = <<>>

otherVars == <<projects, next_uuid, documents, next_doc, cache, fs, pc, loc>>

SearchOps == {"search_symbolic", "search_semantic", "search_hybrid"}

\* A search changes no table, so a search made right after another search
\* reaches no state that the same search made after the preceding write
\* does not reach; the model takes a search after a write only.
AfterWrite == last.op \notin SearchOps

SaveSymbols ==
    \E batch \in SymbolBatches, project_id \in ProjectIds :
    LET symbols == Items(batch)
        embeddings == ItemEmbeddings(batch)
    IN
        /\ RowCount + Len(symbols) <= MaxRows
        /\ vox_symbols' = save_symbols(vox_symbols, symbols, project_id, embeddings)
        /\ last' = [op |-> "save_symbols", symbols |-> symbols,
                    project_id |-> project_id, embeddings |-> embeddings]
        /\ UNCHANGED <<vox_textdata, symbols_v2, otherVars>>

SaveTextChunks ==
    \E batch \in ChunkBatches, project_id \in ProjectIds :
    LET chunks == Items(batch)
        embeddings == ItemEmbeddings(batch)
    IN
        /\ RowCount + Len(chunks) <= MaxRows
        /\ vox_textdata' = save_text_chunks(vox_textdata, chunks, project_id, embeddings)
        /\ last' = [op |-> "save_text_chunks", chunks |-> chunks,
                    project_id |-> project_id, embeddings |-> embeddings]
        /\ UNCHANGED <<vox_symbols, symbols_v2, otherVars>>

\* VoxManager.search_symbolic: embeds the query and calls search_symbols
SearchSymbolic ==
    /\ AfterWrite
    /\ \E query \in Queries, emb \in Embeddings,
          project_id \in SearchProjectIds, limit \in Limits :
       \E rows \in search_symbols_rows(vox_symbols, query, emb, project_id, limit) :
           /\ last' = [op |-> "search_symbolic", query |-> query, emb |-> emb,
                       project_id |-> project_id, limit |-> limit, rows |-> rows,
                       ret |-> Results(rows, LAMBDA r : SymbolResult(r, emb))]
           /\ UNCHANGED <<vox_symbols, vox_textdata, symbols_v2, otherVars>>

\* VoxManager.search_semantic: embeds the query and calls search_text
SearchSemantic ==
    /\ AfterWrite
    /\ \E query \in Queries, emb \in Embeddings,
          project_id \in SearchProjectIds, limit \in Limits :
       \E rows \in search_text_rows(vox_textdata, emb, project_id, limit) :
           /\ last' = [op |-> "search_semantic", query |-> query, emb |-> emb,
                       project_id |-> project_id, limit |-> limit, rows |-> rows,
                       ret |-> Results(rows, LAMBDA r : TextResult(r, emb))]
           /\ UNCHANGED <<vox_symbols, vox_textdata, symbols_v2, otherVars>>

DeleteProjectData ==
    \E project_id \in ProjectIds :
        /\ vox_symbols' = delete_project_data_symbols(vox_symbols, project_id)
        /\ vox_textdata' = delete_project_data_text(vox_textdata, project_id)
        /\ last' = [op |-> "delete_project_data", project_id |-> project_id,
                    removed |-> Cardinality({c \in Copies(vox_symbols) \cup Copies(vox_textdata) :
                                                c[1].project_id = project_id})]
        /\ UNCHANGED <<symbols_v2, otherVars>>

CoreSaveSymbols ==
    \E batch \in CoreBatches, project_id \in ProjectIds :
    LET symbols == Items(batch)
        embeddings == ItemEmbeddings(batch)
    IN
        /\ RowCount + Len(symbols) <= MaxRows
        /\ symbols_v2' = core_save_symbols(symbols_v2, symbols, embeddings, project_id)
        /\ last' = [op |-> "core_save_symbols", symbols |-> symbols,
                    project_id |-> project_id, embeddings |-> embeddings]
        /\ UNCHANGED <<vox_symbols, vox_textdata, otherVars>>

\* Storage.search_hybrid as VoxEngine.ask calls it
SearchHybrid ==
    /\ AfterWrite
    /\ \E query \in Queries, emb \in Embeddings,
          project_id \in SearchProjectIds, limit \in Limits :
       \E rows \in search_hybrid_rows(symbols_v2, query, emb, limit, project_id) :
           /\ last' = [op |-> "search_hybrid", query |-> query, emb |-> emb,
                       project_id |-> project_id, limit |-> limit, rows |-> rows,
                       ret |-> Results(rows, LAMBDA r : HybridResult(r, query, emb))]
           /\ UNCHANGED <<vox_symbols, vox_textdata, symbols_v2, otherVars>>

NextStore ==
    \/ SaveSymbols
    \/ SaveTextChunks
    \/ SearchSymbolic
    \/ SearchSemantic
    \/ DeleteProjectData
    \/ CoreSaveSymbols
    \/ SearchHybrid

SpecStore == InitStore /\ [][NextStore]_vars

-----------------------------------------------------------------------------
(* LocalMetaStorage (src/vox_unified/datalayer.py): the SQLite registry *)

\* _get_conn opens each connection with sqlite3.connect alone: PRAGMA
\* foreign_keys is never set, and SQLite then does not enforce FOREIGN KEY
\* clauses, ON DELETE CASCADE included
ForeignKeys == FALSE

ProjectRow(project_id, name, path) == [id |-> project_id, name |-> name, path |-> path]

\* None where a project row is expected
NoProject == [id |-> None, name |-> None, path |-> None]

\* INSERT INTO projects: id is the PRIMARY KEY and path is UNIQUE
add_project_raises(table, project_id, path) ==
    \E p \in table : p.id = project_id \/ p.path = path

add_project(table, project_id, name, path) ==
    IF add_project_raises(table, project_id, path) THEN table
    ELSE table \cup {ProjectRow(project_id, name, path)}

\* SELECT ... WHERE id = ?  fetchone: the row, or None
get_project(table, project_id) ==
    IF \E p \in table : p.id = project_id
    THEN CHOOSE p \in table : p.id = project_id
    ELSE NoProject

\* mutant: the lookup by path finds nothing
get_project_by_path_none(table, path) == NoProject

\* SELECT ... WHERE path = ?  fetchone: the row, or None
get_project_by_path(table, path) ==
    IF \E p \in table : p.path = path
    THEN CHOOSE p \in table : p.path = path
    ELSE NoProject

\* DELETE FROM projects WHERE id = ?
delete_project(table, project_id) == {p \in table : p.id # project_id}

\* what DELETE FROM projects does to documents: the cascade of the
\* FOREIGN KEY clause, when foreign keys are enforced
delete_project_cascade(docs, project_id) ==
    IF ForeignKeys THEN {d \in docs : d.project_id # project_id} ELSE docs

DocumentRow(id, project_id, doc_type, content, title, file_path) ==
    [id |-> id, project_id |-> project_id, type |-> doc_type, title |-> title,
     content |-> content, file_path |-> file_path]

\* INSERT INTO documents: content is NOT NULL; project_id must name a
\* project only when foreign keys are enforced
add_document_raises(table, project_id, content) ==
    \/ content = NoneS
    \/ ForeignKeys /\ get_project(table, project_id) = NoProject

\* SELECT ... FROM documents WHERE project_id = ?
list_documents(docs, project_id) == {d \in docs : d.project_id = project_id}

\* DELETE FROM documents WHERE id = ?
delete_document(docs, doc_id) == {d \in docs : d.id # doc_id}

-----------------------------------------------------------------------------
(* CacheLayer (src/vox_unified/middleware.py) *)

\* get: the stored value of (project_id, key), or None.  The values cached
\* here are file trees, text that json.loads rejects, so the raw text is
\* what get returns
cache_get(table, project_id, key) ==
    IF \E e \in table : e.project_id = project_id /\ e.key = key
    THEN (CHOOSE e \in table : e.project_id = project_id /\ e.key = key).value
    ELSE None

\* set: INSERT OR REPLACE on the primary key (project_id, key); a str is
\* stored as it is
cache_set(table, project_id, key, value) ==
    {e \in table : ~(e.project_id = project_id /\ e.key = key)}
        \cup {[project_id |-> project_id, key |-> key, value |-> value]}

\* mutant: invalidate ignores the key and clears the project
cache_invalidate_all(table, project_id, key) ==
    {e \in table : e.project_id # project_id}

\* invalidate: `if key` deletes one entry, otherwise all entries of the project
cache_invalidate(table, project_id, key) ==
    IF Truthy(key)
    THEN {e \in table : ~(e.project_id = project_id /\ e.key = key)}
    ELSE {e \in table : e.project_id # project_id}

-----------------------------------------------------------------------------
(* The file system and what the walks over it yield *)

\* the project roots that exist
Paths == {"/a", "/b"}

\* a path that names no directory
MissingPath == "/gone"

\* A project root holds one source file with one function, or that file
\* and a markdown file with one section.
FsStates == {"one", "two"}

MarkdownItem ==
    [content |-> <<"r", "u", "n", " ", "i", "t">>, file_path |-> <<"b", ".", "m", "d">>,
     type |-> TypeMarkdown, metadata |-> <<"H", "1">>]

\* Gatherer.scan_project: the one unified list of items
scan_project(state) ==
    CASE state = "one" -> <<SymbolItem(SymRun, FileA)>>
      [] state = "two" -> <<SymbolItem(SymRun, FileA), MarkdownItem>>

\* the text get_project_tree joins from os.walk
WalkTree(state) ==
    CASE state = "one" -> "a/ a.py"
      [] state = "two" -> "a/ a.py b.md"

\* os.path.exists
PathExists(path) == path \in DOMAIN fs

-----------------------------------------------------------------------------
(* VoxManager (src/vox_unified/manager.py), one call at a time *)

\* the ids uuid4().hex[:16] hands out: each one new
UuidSeq == <<"p1", "p2", "p3", "p4">>

\* an id uuid4 never hands out
UnknownId == "zz"

\* the project ids a caller passes: every id handed out so far, and one
\* that names no project
KnownIds == {UuidSeq[i] : i \in 1..next_uuid} \cup {UnknownId}

\* os.path.basename(abs_path)
Basename(path) == IF path = "/a" THEN "a" ELSE "b"

ProjectNames == {None}

\* what open(from_file).read() raises for a file that cannot be read
ReadError == <<"IOError">>

\* the arguments of docs_add, with what reading from_file yields and what
\* the provider answers for the text: an embedding, or a failure
DocInputs == {
    [content |-> <<"s", "t", "o", "p">>, from_file |-> None, read |-> NoneS,
     type |-> TypeNote, title |-> <<"T">>, provider_ok |-> TRUE, emb |-> 1],
    [content |-> NoneS, from_file |-> "notes.md", read |-> <<"r", "u", "n">>,
     type |-> TypeRule, title |-> NoneS, provider_ok |-> FALSE, emb |-> 0],
    [content |-> NoneS, from_file |-> None, read |-> NoneS,
     type |-> TypeNote, title |-> NoneS, provider_ok |-> TRUE, emb |-> 0],
    [content |-> NoneS, from_file |-> "gone.md", read |-> ReadError,
     type |-> TypeNote, title |-> NoneS, provider_ok |-> TRUE, emb |-> 0]}

IndexTypes == {"all", "symbolic", "semantic"}

VectorRowsOf(project_id) ==
    {c \in Copies(vox_symbols) : c[1].project_id = project_id}
        \cup {c \in Copies(vox_textdata) : c[1].project_id = project_id}

Init ==
    /\ projects = {}
    /\ next_uuid = 0
    /\ documents = {}
    /\ next_doc = 0
    /\ cache = {}
    /\ vox_symbols = EmptyBag
    /\ vox_textdata = EmptyBag
    /\ symbols_v2 = EmptyBag
    /\ fs = [p \in Paths |-> "one"]
    /\ last = NoCall
    /\ pc = <<>>
    /\ loc = <<>>

\* the files under a project root change
FsChange ==
    \E path \in Paths, state \in FsStates :
        /\ fs[path] # state
        /\ fs' = [fs EXCEPT ![path] = state]
        /\ last' = [op |-> "fs_change", path |-> path]
        /\ UNCHANGED <<registryVars, cache, vectorVars, symbols_v2, procVars>>

project_create ==
    \E path \in Paths \cup {MissingPath}, name \in ProjectNames :
        LET existing == get_project_by_path(projects, path)
            project_id == UuidSeq[next_uuid + 1]
            project_name == IF Truthy(name) THEN name ELSE Basename(path)
            \* the call before this one was project_create of the same path
            again == last.op = "project_create" /\ last.path = path
        IN  IF ~PathExists(path) THEN
                /\ last' = [op |-> "project_create", path |-> path, again |-> again,
                            existing |-> FALSE, ret |-> None]
                /\ UNCHANGED <<registryVars, cache, vectorVars, symbols_v2, fs, procVars>>
            ELSE IF existing # NoProject THEN
                /\ last' = [op |-> "project_create", path |-> path, again |-> again,
                            existing |-> TRUE, ret |-> existing.id]
                /\ UNCHANGED <<registryVars, cache, vectorVars, symbols_v2, fs, procVars>>
            ELSE
                /\ next_uuid < MaxProjects
                /\ next_uuid' = next_uuid + 1
                /\ projects' = add_project(projects, project_id, project_name, path)
                /\ last' = [op |-> "project_create", path |-> path, again |-> again,
                            existing |-> FALSE,
                            ret |-> IF add_project_raises(projects, project_id, path)
                                    THEN "IntegrityError" ELSE project_id]
                /\ UNCHANGED <<documents, next_doc, cache, vectorVars, symbols_v2, fs, procVars>>

project_delete ==
    \E project_id \in KnownIds :
        /\ projects' = delete_project(projects, project_id)
        /\ documents' = delete_project_cascade(documents, project_id)
        /\ vox_symbols' = delete_project_data_symbols(vox_symbols, project_id)
        /\ vox_textdata' = delete_project_data_text(vox_textdata, project_id)
        /\ cache' = cache_invalidate(cache, project_id, None)
        /\ last' = [op |-> "project_delete", project_id |-> project_id,
                    had |-> <<Cardinality(list_documents(documents, project_id)),
                              Cardinality(VectorRowsOf(project_id)),
                              Cardinality({e \in cache : e.project_id = project_id})>>]
        /\ UNCHANGED <<next_uuid, next_doc, symbols_v2, fs, procVars>>

\* the cache table after get_project_tree: a truthy cached tree is
\* returned as it is; otherwise the tree of a registered project is walked
\* and cached, and for an unknown project nothing is cached
TreeCache(project_id, cache0) ==
    LET cached == cache_get(cache0, project_id, "file_tree")
        proj == get_project(projects, project_id)
    IN  IF Truthy(cached) THEN cache0
        ELSE IF proj = NoProject THEN cache0
        ELSE cache_set(cache0, project_id, "file_tree", WalkTree(fs[proj.path]))

TreeResult(project_id, cache0) ==
    LET cached == cache_get(cache0, project_id, "file_tree")
        proj == get_project(projects, project_id)
    IN  IF Truthy(cached) THEN cached
        ELSE IF proj = NoProject THEN "Project not found"
        ELSE WalkTree(fs[proj.path])

get_project_tree ==
    \E project_id \in KnownIds :
        /\ cache' = TreeCache(project_id, cache)
        /\ last' = [op |-> "get_project_tree", project_id |-> project_id,
                    ret |-> TreeResult(project_id, cache)]
        /\ UNCHANGED <<registryVars, vectorVars, symbols_v2, fs, procVars>>

docs_add ==
    \E project_id \in KnownIds, d \in DocInputs :
        LET final_content == IF Truthy(d.from_file) THEN d.read ELSE d.content
            text_to_embed == IF TruthyS(d.title)
                             THEN StrTitle \o d.title \o NL \o final_content
                             ELSE final_content
            chunk == [content |-> text_to_embed, type |-> d.type]
            doc_id == next_doc + 1
            Returns(outcome) ==
                last' = [op |-> "docs_add", project_id |-> project_id, outcome |-> outcome]
        IN  IF ~TruthyS(d.content) /\ ~Truthy(d.from_file) THEN
                /\ Returns("no content")
                /\ UNCHANGED <<registryVars, cache, vectorVars, symbols_v2, fs, procVars>>
            ELSE IF Truthy(d.from_file) /\ d.read = ReadError THEN
                /\ Returns("read error")
                /\ UNCHANGED <<registryVars, cache, vectorVars, symbols_v2, fs, procVars>>
            ELSE IF add_document_raises(projects, project_id, final_content) THEN
                /\ Returns("IntegrityError")
                /\ UNCHANGED <<registryVars, cache, vectorVars, symbols_v2, fs, procVars>>
            ELSE
                /\ next_doc < MaxDocs
                /\ next_doc' = doc_id
                /\ documents' = documents \cup
                      {DocumentRow(doc_id, project_id, d.type, final_content,
                                   d.title, d.from_file)}
                /\ IF d.provider_ok
                   THEN /\ vox_textdata' = save_text_chunks(vox_textdata, <<chunk>>,
                                                            project_id, <<d.emb>>)
                        /\ Returns("ok")
                   ELSE /\ vox_textdata' = vox_textdata
                        /\ Returns("RuntimeError")
                /\ UNCHANGED <<projects, next_uuid, cache, vox_symbols, symbols_v2,
                               fs, procVars>>

docs_delete ==
    \E project_id \in KnownIds, doc_id \in 1..(next_doc + 1) :
        /\ documents' = delete_document(documents, doc_id)
        /\ last' = [op |-> "docs_delete", project_id |-> project_id, doc_id |-> doc_id,
                    removed |-> {d \in documents : d.id = doc_id}]
        /\ UNCHANGED <<projects, next_uuid, next_doc, cache, vectorVars, symbols_v2,
                       fs, procVars>>

\* How index_build ends once the scan has returned.  scan_project returns
\* one list of items and line 95 unpacks it into two names: a list that
\* does not hold exactly two items raises ValueError.  With two items,
\* text_chunks and symbols are each one item, a dict: appending a local
\* document raises AttributeError; iterating symbols yields its keys, and
\* s.type on a str raises AttributeError; iterating text_chunks yields its
\* keys, and chunk["content"] on a str raises TypeError.  An item is never
\* empty, so `and symbols` and `and text_chunks` hold.  No path reaches
\* save_symbols or save_text_chunks.
index_build_outcome(items, local_docs, type) ==
    IF Len(items) # 2 THEN "ValueError"
    ELSE IF local_docs # {} THEN "AttributeError"
    ELSE IF type \in {"all", "symbolic"} THEN "AttributeError"
    ELSE IF type \in {"all", "semantic"} THEN "TypeError"
    ELSE "ok"

\* index_build as one call: the purge, the tree, the scan and what follows
IndexBuildCall(op, project_id, type, force) ==
    LET project == get_project(projects, project_id)
        purged == IF force THEN cache_invalidate(cache, project_id, None) ELSE cache
        items == scan_project(fs[project.path])
        local_docs == list_documents(documents, project_id)
    IN  IF project = NoProject THEN
            /\ last' = [op |-> op, project_id |-> project_id, type |-> type,
                        force |-> force, outcome |-> "not found", had |-> 0,
                        scanned |-> 0, docs |-> 0]
            /\ UNCHANGED <<registryVars, cache, vectorVars, symbols_v2, fs, procVars>>
        ELSE
            /\ vox_symbols' = IF force
                              THEN delete_project_data_symbols(vox_symbols, project_id)
                              ELSE vox_symbols
            /\ vox_textdata' = IF force
                               THEN delete_project_data_text(vox_textdata, project_id)
                               ELSE vox_textdata
            /\ cache' = TreeCache(project_id, purged)
            /\ last' = [op |-> op, project_id |-> project_id, type |-> type,
                        force |-> force,
                        outcome |-> index_build_outcome(items, local_docs, type),
                        had |-> Cardinality(VectorRowsOf(project_id)),
                        scanned |-> Len(items), docs |-> Cardinality(local_docs)]
            /\ UNCHANGED <<registryVars, symbols_v2, fs, procVars>>

index_build ==
    \E project_id \in KnownIds, type \in IndexTypes, force \in BOOLEAN :
        IndexBuildCall("index_build", project_id, type, force)

index_update ==
    \E project_id \in KnownIds : IndexBuildCall("index_update", project_id, "all", FALSE)

Next ==
    \/ FsChange
    \/ project_create
    \/ project_delete
    \/ get_project_tree
    \/ docs_add
    \/ docs_delete
    \/ index_build
    \/ index_update

Spec == Init /\ [][Next]_vars

\* The calls that read or write the projects table, and the file system
\* they look at: documents are neither added nor deleted.
NextRegistry ==
    \/ FsChange
    \/ project_create
    \/ project_delete
    \/ get_project_tree
    \/ index_build
    \/ index_update

SpecRegistry == Init /\ [][NextRegistry]_vars

-----------------------------------------------------------------------------
(* VoxManager.index_build run by two callers at once.  Nothing in
   index_build or in the stores it calls takes a lock across calls, so a
   run is a sequence of store operations, each atomic in its own
   connection, that interleave with the operations of the other run. *)

Runs == {1, 2}

\* the locals of a run that has not started
NoLocals == [project_id |-> None, type |-> None, force |-> FALSE, path |-> None,
             tree |-> None]

\* the state after project_create("/a") in a new registry
InitConc ==
    /\ projects = {ProjectRow(UuidSeq[1], Basename("/a"), "/a")}
    /\ next_uuid = 1
    /\ documents = {}
    /\ next_doc = 0
    /\ cache = {}
    /\ vox_symbols = EmptyBag
    /\ vox_textdata = EmptyBag
    /\ symbols_v2 = EmptyBag
    /\ fs = [p \in Paths |-> "one"]
    /\ last = NoCall
    /\ pc = [r \in Runs |-> "idle"]
    /\ loc = [r \in Runs |-> NoLocals]

Goto(r, label) == pc' = [pc EXCEPT ![r] = label]

\* the run returns or raises
Finish(r, outcome) ==
    /\ pc' = [pc EXCEPT ![r] = "idle"]
    /\ loc' = [loc EXCEPT ![r] = NoLocals]
    /\ last' = [op |-> "index_build", run |-> r, project_id |-> loc[r].project_id,
                force |-> loc[r].force, outcome |-> outcome]

\* the call index_build(project_id, "all", force)
IndexBegin(r) ==
    /\ pc[r] = "idle"
    /\ \E project_id \in KnownIds, force \in BOOLEAN :
          loc' = [loc EXCEPT ![r] = [NoLocals EXCEPT !.project_id = project_id,
                                                     !.type = "all",
                                                     !.force = force]]
    /\ Goto(r, "get_project")
    /\ UNCHANGED <<registryVars, cache, vectorVars, symbols_v2, fs, last>>

\* project = self.local.get_project(project_id)
IndexGetProject(r) ==
    /\ pc[r] = "get_project"
    /\ LET project == get_project(projects, loc[r].project_id)
       IN  IF project = NoProject THEN Finish(r, "not found")
           ELSE /\ loc' = [loc EXCEPT ![r].path = project.path]
                /\ Goto(r, IF loc[r].force THEN "purge" ELSE "tree_get")
                /\ UNCHANGED last
    /\ UNCHANGED <<registryVars, cache, vectorVars, symbols_v2, fs>>

\* self.vector.delete_project_data(project_id): both DELETEs, one commit
IndexPurge(r) ==
    /\ pc[r] = "purge"
    /\ vox_symbols' = delete_project_data_symbols(vox_symbols, loc[r].project_id)
    /\ vox_textdata' = delete_project_data_text(vox_textdata, loc[r].project_id)
    /\ Goto(r, "invalidate")
    /\ UNCHANGED <<registryVars, cache, symbols_v2, fs, last, loc>>

\* self.cache.invalidate(project_id)
IndexInvalidate(r) ==
    /\ pc[r] = "invalidate"
    /\ cache' = cache_invalidate(cache, loc[r].project_id, None)
    /\ Goto(r, "tree_get")
    /\ UNCHANGED <<registryVars, vectorVars, symbols_v2, fs, last, loc>>

\* get_project_tree: cached = self.cache.get(project_id, "file_tree")
IndexTreeGet(r) ==
    /\ pc[r] = "tree_get"
    /\ Goto(r, IF Truthy(cache_get(cache, loc[r].project_id, "file_tree"))
               THEN "scan" ELSE "tree_walk")
    /\ UNCHANGED <<registryVars, cache, vectorVars, symbols_v2, fs, last, loc>>

\* get_project_tree: get_project and the walk over the project root
IndexTreeWalk(r) ==
    /\ pc[r] = "tree_walk"
    /\ LET proj == get_project(projects, loc[r].project_id)
       IN  IF proj = NoProject
           THEN /\ Goto(r, "scan")
                /\ UNCHANGED loc
           ELSE /\ loc' = [loc EXCEPT ![r].tree = WalkTree(fs[proj.path])]
                /\ Goto(r, "tree_set")
    /\ UNCHANGED <<registryVars, cache, vectorVars, symbols_v2, fs, last>>

\* get_project_tree: self.cache.set(project_id, "file_tree", tree)
IndexTreeSet(r) ==
    /\ pc[r] = "tree_set"
    /\ cache' = cache_set(cache, loc[r].project_id, "file_tree", loc[r].tree)
    /\ Goto(r, "scan")
    /\ UNCHANGED <<registryVars, vectorVars, symbols_v2, fs, last, loc>>

\* text_chunks, symbols = self.gatherer.scan_project(project['path'])
IndexScan(r) ==
    /\ pc[r] = "scan"
    /\ LET items == scan_project(fs[loc[r].path])
       IN  IF Len(items) # 2
           THEN Finish(r, index_build_outcome(items, {}, loc[r].type))
           ELSE /\ Goto(r, "local_docs")
                /\ UNCHANGED <<last, loc>>
    /\ UNCHANGED <<registryVars, cache, vectorVars, symbols_v2, fs>>

\* local_docs = self.local.list_documents(project_id) and what follows it
IndexLocalDocs(r) ==
    /\ pc[r] = "local_docs"
    /\ Finish(r, index_build_outcome(scan_project("two"),
                                     list_documents(documents, loc[r].project_id),
                                     loc[r].type))
    /\ UNCHANGED <<registryVars, cache, vectorVars, symbols_v2, fs>>

IndexStep(r) ==
    \/ IndexBegin(r)
    \/ IndexGetProject(r)
    \/ IndexPurge(r)
    \/ IndexInvalidate(r)
    \/ IndexTreeGet(r)
    \/ IndexTreeWalk(r)
    \/ IndexTreeSet(r)
    \/ IndexScan(r)
    \/ IndexLocalDocs(r)

NextConc ==
    \/ FsChange
    \/ docs_add
    \/ \E r \in Runs : IndexStep(r)

SpecConc == InitConc /\ [][NextConc]_vars

-----------------------------------------------------------------------------
(* Claims about the manager's operations, under Spec *)

RegisteredIds == {p.id : p \in projects}

CacheRowsOf(project_id) == {e \in cache : e.project_id = project_id}

\* every search scoped to project_id returns the empty list
ScopedSearchesEmpty(project_id) ==
    \A e \in Embeddings, limit \in Limits :
        /\ search_text_rows(vox_textdata, e, project_id, limit) = {<<>>}
        /\ \A q \in Queries :
              search_symbols_rows(vox_symbols, q, e, project_id, limit) = {<<>>}

(* C1: after project_delete(P) on a project that had documents, vector rows
   and cache entries, no document, no vector row and no cache entry carries
   P, and every search scoped to P returns nothing. *)
C1_ProjectDeleteRemovesAll ==
    (/\ last.op = "project_delete"
     /\ last.had[1] > 0 /\ last.had[2] > 0 /\ last.had[3] > 0)
        => /\ list_documents(documents, last.project_id) = {}
           /\ VectorRowsOf(last.project_id) = {}
           /\ CacheRowsOf(last.project_id) = {}
           /\ ScopedSearchesEmpty(last.project_id)

(* C2: after a forced index_build(P, type=all) on a registered project that
   already held indexed rows, the vector store holds for P exactly as many
   rows as the run scanned items plus P's registered documents. *)
C2_ForcedReindexCount ==
    (/\ last.op = "index_build"
     /\ last.type = "all" /\ last.force
     /\ last.outcome # "not found"
     /\ last.had > 0)
        => Cardinality(VectorRowsOf(last.project_id)) = last.scanned + last.docs

\* no two projects of the registry share a path
NoDupPath == \A p1, p2 \in projects : p1.path = p2.path => p1 = p2

(* C3: in every state no two projects share a path, and a project_create
   of an existing path that directly follows a project_create of the same
   path returns the id the first call returned, the registry then holding
   exactly one project with that path. *)
C3_SamePathSameId ==
    /\ []NoDupPath
    /\ [][(/\ last.op = "project_create"
           /\ last'.op = "project_create"
           /\ last'.path = last.path
           /\ PathExists(last.path))
              => /\ last'.ret = last.ret
                 /\ last'.ret \in RegisteredIds'
                 /\ Cardinality({p \in projects' : p.path = last'.path}) = 1]_vars

\* a second project_create of a path has returned the registered id while
\* the registry holds a project on each root
C3_Witness ==
    /\ last.op = "project_create"
    /\ last.again
    /\ last.ret \in RegisteredIds
    /\ Cardinality(projects) = Cardinality(Paths)

(* C4: in every state every vector row, every document and every cache
   entry carries the id of a project that is in the registry. *)
C4_NoOrphans ==
    /\ \A c \in Copies(vox_symbols) : c[1].project_id \in RegisteredIds
    /\ \A c \in Copies(vox_textdata) : c[1].project_id \in RegisteredIds
    /\ \A d \in documents : d.project_id \in RegisteredIds
    /\ \A e \in cache : e.project_id \in RegisteredIds

\* run r has purged the rows of its project and has not yet finished
Purged(r) ==
    /\ loc[r].force
    /\ pc[r] \in {"invalidate", "tree_get", "tree_walk", "tree_set", "scan", "local_docs"}

(* C5: two forced index_build runs for the same project exclude each
   other: never are both between their purge and their end. *)
C5_ForcedRunsExclusive ==
    \A r1, r2 \in Runs :
        (r1 # r2 /\ Purged(r1) /\ Purged(r2))
            => loc[r1].project_id # loc[r2].project_id

-----------------------------------------------------------------------------
(* Claims about the searches and the vector store, under SpecStore *)

Positions(seq) == 1..Len(seq)

HasQuery(result) == Contains(result.content, last.query)

\* C6: in the result list of a search, of two stored items of equal type of
\* which exactly one contains the query text as a substring, that one stands
\* before the other, whatever their distances
C6_LexicalBoostFirst ==
    /\ last.op = "search_semantic" =>
          \A i, j \in Positions(last.ret) :
              (/\ i < j
               /\ last.rows[i].source_type = last.rows[j].source_type
               /\ HasQuery(last.ret[i]) # HasQuery(last.ret[j]))
                  => HasQuery(last.ret[i])
    /\ last.op = "search_symbolic" =>
          \A i, j \in Positions(last.ret) :
              (i < j /\ HasQuery(last.ret[i]) # HasQuery(last.ret[j]))
                  => HasQuery(last.ret[i])

\* the authority tier of a stored type: rule, then symbol, then the rest
Tier(type) == IF type = TypeRule THEN 0 ELSE IF type = StrSymbolSource THEN 1 ELSE 2

\* C7: among results with the same lexical boost, rule items stand before
\* symbol items and symbol items before all others; distance orders items
\* of one tier only
C7_TypeTierOrder ==
    last.op = "search_semantic" =>
        \A i, j \in Positions(last.ret) :
            (i < j /\ HasQuery(last.ret[i]) = HasQuery(last.ret[j]))
                => Tier(last.rows[i].source_type) <= Tier(last.rows[j].source_type)

\* C8 as stated: every project_id value supplied to a search, the empty
\* string included, scopes the result to the rows of that project
C8_ScopedToSuppliedId ==
    (last.op \in SearchOps /\ last.project_id # None) =>
        \A i \in Positions(last.rows) : last.rows[i].project_id = last.project_id

\* C8 amended: a non-empty project_id supplied to search_symbols,
\* search_text or search_hybrid scopes the result to the rows of that
\* project; the empty string is taken as no project_id
C8_ScopedToNonEmptyId ==
    (last.op \in SearchOps /\ Truthy(last.project_id)) =>
        \A i \in Positions(last.rows) : last.rows[i].project_id = last.project_id

SearchedTable ==
    CASE last.op = "search_symbolic" -> vox_symbols
      [] last.op = "search_semantic" -> vox_textdata
      [] last.op = "search_hybrid" -> symbols_v2

\* a scoped search returned a row while the table also holds another project's row
C8_Witness ==
    /\ last.op \in SearchOps
    /\ Truthy(last.project_id)
    /\ Len(last.rows) >= 1
    /\ \E r \in BagToSet(SearchedTable) : r.project_id # last.project_id

\* the symbol a row of vox_symbols was saved from, as far as the row keeps it
RowSymbol(row) ==
    [name |-> row.name, type |-> row.symbol_type, code |-> row.code,
     start_line |-> 0, end_line |-> 0]

\* C9: the content of a search result is identical to the content the scan
\* submitted for the item, for symbol items and text chunks alike
C9_ContentRoundTrip ==
    /\ last.op = "search_symbolic" =>
          \A i \in Positions(last.ret) :
              last.ret[i].content
                  = SymbolItem(RowSymbol(last.rows[i]), last.rows[i].file_path).content
    /\ last.op = "search_semantic" =>
          \A i \in Positions(last.ret) : last.ret[i].content = last.rows[i].content

\* C10: delete_project_data(P) leaves no row of P in vox_symbols or
\* vox_textdata and leaves every row of every other project as it was
C10_DeleteProjectDataFrame ==
    [][last'.op = "delete_project_data" =>
          LET P == last'.project_id
              Exact(old, new) ==
                  /\ \A r \in BagToSet(new) : r.project_id # P
                  /\ BagToSet(new) \subseteq BagToSet(old)
                  /\ \A r \in BagToSet(old) :
                        r.project_id # P => CopiesIn(r, new) = CopiesIn(r, old)
          IN  /\ Exact(vox_symbols, vox_symbols')
              /\ Exact(vox_textdata, vox_textdata')]_vars

\* delete_project_data removed rows of P and rows of another project remain
C10_Witness ==
    /\ last.op = "delete_project_data"
    /\ last.removed > 0
    /\ (vox_symbols # EmptyBag \/ vox_textdata # EmptyBag)

-----------------------------------------------------------------------------
(* Claims about the writes of the vector store, under SpecStore *)

\* the bag holding one copy of each element of the sequence s
RECURSIVE BagOfSeq(_)
BagOfSeq(s) == IF s = <<>> THEN EmptyBag ELSE SetToBag({Head(s)}) (+) BagOfSeq(Tail(s))

\* C11: save_symbols and save_text_chunks add one row per supplied item,
\* item i carrying embeddings[i], and change no row that was there: the
\* table afterwards is the table before plus exactly these rows, copies of
\* rows already present included
C11_SavesAppendOnly ==
    [][/\ last'.op = "save_symbols" =>
            /\ vox_symbols' = vox_symbols (+) BagOfSeq(
                  [i \in 1..Len(last'.symbols) |->
                      [project_id |-> last'.project_id,
                       name |-> last'.symbols[i].name,
                       symbol_type |-> last'.symbols[i].type,
                       code |-> last'.symbols[i].code,
                       embedding |-> last'.embeddings[i],
                       file_path |-> last'.symbols[i].file_path]])
            /\ vox_textdata' = vox_textdata
       /\ last'.op = "save_text_chunks" =>
            /\ vox_textdata' = vox_textdata (+) BagOfSeq(
                  [i \in 1..Len(last'.chunks) |->
                      [project_id |-> last'.project_id,
                       content |-> last'.chunks[i].content,
                       embedding |-> last'.embeddings[i],
                       source_type |-> last'.chunks[i].type]])
            /\ vox_symbols' = vox_symbols]_vars

\* the same symbol has been saved twice with no purge between, and the
\* table holds two copies of its row
C11_Witness ==
    /\ last.op = "save_symbols"
    /\ \E r \in BagToSet(vox_symbols) :
          /\ CopiesIn(r, vox_symbols) = 2
          /\ r.name = last.symbols[1].name
          /\ r.project_id = last.project_id

-----------------------------------------------------------------------------
(* Further claims about the manager's operations, under Spec *)

\* the file tree of the root of project_id as the file system now holds it
CurrentTree(project_id) == WalkTree(fs[get_project(projects, project_id).path])

\* C12: after index_build on a registered project, forced or not, the cache
\* entry (P, "file_tree") is the file tree of the project's root as it is
\* at the time of the call
C12_TreeRefreshed ==
    (/\ last.op = "index_build"
     /\ last.outcome # "not found")
        => cache_get(cache, last.project_id, "file_tree") = CurrentTree(last.project_id)

-----------------------------------------------------------------------------
(* The operations while one of the three stores is down: every statement  *)
(* that connects to the store raises.  What raises inside a try block is  *)
(* caught there; everything else reaches the caller.                      *)

Stores == {"registry", "vector", "cache"}

VectorWrites == {"save_symbols", "save_text_chunks", "delete_project_data"}
VectorReads == {"search_symbols", "search_text", "search_hybrid"}

\* mutant: the writes catch and log what the store raises, as the searches do
Catches_all(fn) == TRUE

\* the functions whose body is a try block with `except Exception`:
\* search_symbols and search_text of VectorStorage.  The writes of
\* VectorStorage and search_hybrid of the core Storage have none
Catches(fn) == fn \in {"search_symbols", "search_text"}

\* a call of a store function while its store is down: the empty result
\* list when the function catches, the exception otherwise
DownCall(fn) == [raised |-> ~Catches(fn), ret |-> <<>>]

\* the record of a call made while `down` was down: wrote says that a write
\* to the vector store was attempted and failed; raised that the call
\* ended with an exception
DownRecord(op, project_id, down, wrote, raised) ==
    [op |-> op, project_id |-> project_id, down |-> down, wrote |-> wrote,
     raised |-> raised, ret |-> <<>>]

\* save_symbols, save_text_chunks or delete_project_data called directly;
\* the arguments play no part, the connection is what raises
VectorWriteDown ==
    \E fn \in VectorWrites :
        /\ last' = DownRecord(fn, UuidSeq[1], "vector", TRUE, DownCall(fn).raised)
        /\ UNCHANGED <<registryVars, cache, vectorVars, symbols_v2, fs, procVars>>

\* search_symbols, search_text or search_hybrid called directly
VectorReadDown ==
    \E fn \in VectorReads :
        /\ last' = [DownRecord(fn, None, "vector", FALSE, DownCall(fn).raised)
                       EXCEPT !.ret = DownCall(fn).ret]
        /\ UNCHANGED <<registryVars, cache, vectorVars, symbols_v2, fs, procVars>>

\* VoxManager.search_semantic and search_symbolic: the embedding, then
\* search_text or search_symbols, with no try of their own
ManagerSearchDown ==
    \E op \in {"search_semantic", "search_symbolic"} :
        LET fn == IF op = "search_semantic" THEN "search_text" ELSE "search_symbols"
        IN  /\ last' = [DownRecord(op, None, "vector", FALSE, DownCall(fn).raised)
                           EXCEPT !.ret = DownCall(fn).ret]
            /\ UNCHANGED <<registryVars, cache, vectorVars, symbols_v2, fs, procVars>>

\* VoxManager.project_delete: the three deletions in turn, none in a try
project_delete_down ==
    \E project_id \in KnownIds, down \in Stores :
        LET registry_done == down # "registry"
            vector_raised == down = "vector" /\ DownCall("delete_project_data").raised
            vector_done == registry_done /\ down # "vector"
            cache_done == registry_done /\ ~vector_raised /\ down # "cache"
        IN  /\ projects' = IF registry_done THEN delete_project(projects, project_id)
                           ELSE projects
            /\ documents' = IF registry_done
                            THEN delete_project_cascade(documents, project_id)
                            ELSE documents
            /\ vox_symbols' = IF vector_done
                              THEN delete_project_data_symbols(vox_symbols, project_id)
                              ELSE vox_symbols
            /\ vox_textdata' = IF vector_done
                               THEN delete_project_data_text(vox_textdata, project_id)
                               ELSE vox_textdata
            /\ cache' = IF cache_done THEN cache_invalidate(cache, project_id, None)
                        ELSE cache
            /\ last' = DownRecord("project_delete", project_id, down,
                                  registry_done /\ down = "vector",
                                  ~registry_done \/ vector_raised
                                      \/ (~vector_raised /\ down = "cache"))
            /\ UNCHANGED <<next_uuid, next_doc, symbols_v2, fs, procVars>>

\* VoxManager.docs_add with valid arguments: add_document, the embedding,
\* save_text_chunks; docs_add does not use the cache
docs_add_down ==
    \E project_id \in KnownIds, d \in DocInputs, down \in {"registry", "vector"} :
        LET final_content == IF Truthy(d.from_file) THEN d.read ELSE d.content
            doc_id == next_doc + 1
            saved == down # "registry"
            wrote == saved /\ d.provider_ok /\ down = "vector"
        IN  /\ TruthyS(d.content) \/ Truthy(d.from_file)
            /\ Truthy(d.from_file) => d.read # ReadError
            /\ ~add_document_raises(projects, project_id, final_content)
            /\ next_doc < MaxDocs
            /\ next_doc' = IF saved THEN doc_id ELSE next_doc
            /\ documents' = IF saved
                            THEN documents \cup
                                 {DocumentRow(doc_id, project_id, d.type, final_content,
                                              d.title, d.from_file)}
                            ELSE documents
            /\ last' = DownRecord("docs_add", project_id, down, wrote,
                                  ~saved \/ ~d.provider_ok
                                      \/ (wrote /\ DownCall("save_text_chunks").raised))
            /\ UNCHANGED <<projects, next_uuid, cache, vectorVars, symbols_v2, fs, procVars>>

\* VoxManager.index_build(project_id, force=force): get_project, the purge
\* of the vector store and of the cache if force, get_project_tree, the
\* scan and what follows it
index_build_down ==
    \E project_id \in KnownIds, force \in BOOLEAN, down \in Stores :
        LET type == "all"
            project == get_project(projects, project_id)
            found == down # "registry" /\ project # NoProject
            wrote == found /\ force /\ down = "vector"
            purge_raised == wrote /\ DownCall("delete_project_data").raised
            purged == found /\ force /\ down # "vector"
            tree_reached == found /\ ~purge_raised /\ down # "cache"
            invalidated == IF purged /\ tree_reached
                           THEN cache_invalidate(cache, project_id, None) ELSE cache
            outcome == index_build_outcome(scan_project(fs[project.path]),
                                           list_documents(documents, project_id), type)
        IN  /\ vox_symbols' = IF purged
                              THEN delete_project_data_symbols(vox_symbols, project_id)
                              ELSE vox_symbols
            /\ vox_textdata' = IF purged
                               THEN delete_project_data_text(vox_textdata, project_id)
                               ELSE vox_textdata
            /\ cache' = IF tree_reached THEN TreeCache(project_id, invalidated) ELSE cache
            /\ last' = DownRecord("index_build", project_id, down, wrote,
                                  \/ down = "registry"
                                  \/ purge_raised
                                  \/ found /\ down = "cache"
                                  \/ tree_reached /\ outcome # "ok")
            /\ UNCHANGED <<registryVars, symbols_v2, fs, procVars>>

\* The registry is filled by project_create and the cache by
\* get_project_tree; documents come from the docs_add calls whose vector
\* write fails.
NextDown ==
    \/ project_create
    \/ get_project_tree
    \/ VectorWriteDown
    \/ VectorReadDown
    \/ ManagerSearchDown
    \/ project_delete_down
    \/ docs_add_down
    \/ index_build_down

SpecDown == Init /\ [][NextDown]_vars

\* the last call was made while a store was down
WasDown == "down" \in DOMAIN last

\* C13: a call in which a write to the vector store failed ends with the
\* exception: the write itself, and index_build, docs_add and project_delete
\* around it
C13_FailedWriteRaises == (WasDown /\ last.wrote) => last.raised

\* docs_add has stored the document in the registry, its save_text_chunks
\* has failed, and docs_add has raised
C13_Witness ==
    /\ WasDown
    /\ last.op = "docs_add"
    /\ last.wrote
    /\ last.raised
    /\ \E d \in documents : d.id = next_doc /\ d.project_id = last.project_id

\* C14: a search whose lookup in the vector store fails returns the empty
\* list and raises nothing
C14_FailedSearchEmpty ==
    (/\ WasDown
     /\ last.op \in VectorReads \cup {"search_semantic", "search_symbolic"})
        => (~last.raised /\ last.ret = <<>>)

\* C15: when one store fails in project_delete(P), the failure reaches the
\* caller and the other two stores no longer hold rows of P
C15_DeleteBestEffort ==
    (WasDown /\ last.op = "project_delete")
        => /\ last.raised
           /\ last.down # "registry" => last.project_id \notin RegisteredIds
           /\ last.down # "vector" => VectorRowsOf(last.project_id) = {}
           /\ last.down # "cache" => CacheRowsOf(last.project_id) = {}

-----------------------------------------------------------------------------
(* Claims about the manager's operations, under Spec, continued *)

\* C16: index_build and docs_add called with a project id that is not in
\* the registry, and project_create called with a path that does not exist,
\* leave the projects, the documents, the vector store and the cache as
\* they were
C16_UnknownTargetNoEffect ==
    [][(\/ /\ last'.op \in {"index_build", "index_update", "docs_add"}
           /\ last'.project_id \notin RegisteredIds
        \/ /\ last'.op = "project_create"
           /\ ~PathExists(last'.path))
          => UNCHANGED <<projects, documents, vox_symbols, vox_textdata, cache>>]_vars

-----------------------------------------------------------------------------
(* CacheLayer called directly (src/vox_unified/middleware.py), with the   *)
(* conversions of set and get between Python values and the stored text   *)

\* A Python value: its type and its repr
PyStr(s) == [kind |-> "str", repr |-> s]
PyInt(n) == [kind |-> "int", repr |-> n]
PyList(r) == [kind |-> "list", repr |-> r]
PyDict(r) == [kind |-> "dict", repr |-> r]
PyNone == [kind |-> "NoneType", repr |-> "None"]

\* the values set is called with: a file tree, a string of digits, a list
\* and a dict
CacheValues == {PyStr("a/ a.py"), PyStr("12"), PyList("[1]"), PyDict("{'a': 1}")}

CacheKeys == {"file_tree", "k"}

\* json.dumps of a list or dict
json_dumps(value) ==
    CASE value = PyList("[1]") -> "[1]"
      [] value = PyDict("{'a': 1}") -> "{\"a\": 1}"

\* json.loads raises on a text that is no JSON document
json_loads_raises(text) == text \notin {"[1]", "{\"a\": 1}", "12"}

\* json.loads of a JSON document
json_loads(text) ==
    CASE text = "[1]" -> PyList("[1]")
      [] text = "{\"a\": 1}" -> PyDict("{'a': 1}")
      [] text = "12" -> PyInt("12")

\* set: json_val = json.dumps(value) if isinstance(value, (dict, list))
\*      else str(value)
set_json_val(value) ==
    IF value.kind \in {"dict", "list"} THEN json_dumps(value) ELSE value.repr

\* mutant: get returns None for every key
CacheLayer_get_none(table, project_id, key) == PyNone

\* get: no row gives None; otherwise json.loads(row[0]), and row[0] itself
\* when json.loads raises
CacheLayer_get(table, project_id, key) ==
    IF ~\E e \in table : e.project_id = project_id /\ e.key = key THEN PyNone
    ELSE LET text == cache_get(table, project_id, key)
         IN  IF json_loads_raises(text) THEN PyStr(text) ELSE json_loads(text)

CacheLayer_set(table, project_id, key, value) ==
    cache_set(table, project_id, key, set_json_val(value))

CacheSet ==
    \E project_id \in ProjectIds, key \in CacheKeys, value \in CacheValues :
        /\ cache' = CacheLayer_set(cache, project_id, key, value)
        /\ last' = [op |-> "set", project_id |-> project_id, key |-> key,
                    value |-> value]
        /\ UNCHANGED <<registryVars, vectorVars, symbols_v2, fs, procVars>>

CacheGet ==
    \E project_id \in ProjectIds, key \in CacheKeys :
        /\ last' = [op |-> "get", project_id |-> project_id, key |-> key,
                    value |-> CacheLayer_get(cache, project_id, key)]
        /\ UNCHANGED <<registryVars, cache, vectorVars, symbols_v2, fs, procVars>>

\* invalidate(project_id, key) and, with key None, invalidate(project_id)
CacheInvalidate ==
    \E project_id \in ProjectIds, key \in CacheKeys \cup {None, ""} :
        /\ cache' = cache_invalidate(cache, project_id, key)
        /\ last' = [op |-> "invalidate", project_id |-> project_id, key |-> key,
                    value |-> PyNone]
        /\ UNCHANGED <<registryVars, vectorVars, symbols_v2, fs, procVars>>

NextCache ==
    \/ CacheSet
    \/ CacheGet
    \/ CacheInvalidate

SpecCache == InitStore /\ [][NextCache]_vars

-----------------------------------------------------------------------------
(* Claims about CacheLayer, under SpecCache *)

\* C17: get(p, k) returns the value of the most recent set(p, k, v) not
\* followed by an invalidation of (p, k), and None when there is none; a set
\* on (p, k) changes what get returns for no other (p', k').  Step by step:
\* right after set(p, k, v) a get(p, k) returns v and every other entry reads
\* as before, a get changes no entry, and after invalidate(p, k) with a key
\* get(p, k) returns None.
C17_GetReturnsLastSet ==
    [][/\ last'.op = "set" =>
            /\ CacheLayer_get(cache', last'.project_id, last'.key) = last'.value
            /\ \A p \in ProjectIds, k \in CacheKeys :
                    <<p, k>> # <<last'.project_id, last'.key>> =>
                        CacheLayer_get(cache', p, k) = CacheLayer_get(cache, p, k)
       /\ last'.op = "get" =>
            \A p \in ProjectIds, k \in CacheKeys :
                CacheLayer_get(cache', p, k) = CacheLayer_get(cache, p, k)
       /\ (last'.op = "invalidate" /\ last'.key \in CacheKeys) =>
            CacheLayer_get(cache', last'.project_id, last'.key) = PyNone]_vars

\* C18 as stated: invalidate(p, k) with any string k, the empty string
\* included, removes only the entry (p, k); invalidate(p) without a key
\* removes every entry of p; entries of other projects stay.
C18_InvalidateAnyKey ==
    [][last'.op = "invalidate" =>
          cache' = IF last'.key # None
                   THEN {e \in cache : ~(e.project_id = last'.project_id
                                         /\ e.key = last'.key)}
                   ELSE {e \in cache : e.project_id # last'.project_id}]_vars

\* C18 amended: invalidate(p, k) with a non-empty key k removes only the
\* entry (p, k); invalidate(p) without a key removes every entry of p;
\* entries of other projects stay.
C18_InvalidateNonEmptyKey ==
    [][(last'.op = "invalidate" /\ last'.key # "") =>
          cache' = IF last'.key # None
                   THEN {e \in cache : ~(e.project_id = last'.project_id
                                         /\ e.key = last'.key)}
                   ELSE {e \in cache : e.project_id # last'.project_id}]_vars

\* invalidate(p, "k") has run and left the other entry of p and an entry of
\* another project in place
C18_Witness ==
    /\ last.op = "invalidate"
    /\ last.key = "k"
    /\ \E e \in cache : e.project_id = last.project_id /\ e.key = "file_tree"
    /\ \E e \in cache : e.project_id # last.project_id

-----------------------------------------------------------------------------
(* Claims about documents, under Spec *)

\* C19: document operations are scoped by project: docs_delete(P, d) removes
\* document d only when it belongs to project P and removes no document of
\* another project, and list_documents(P) is exactly the documents whose
\* project_id is P.
C19_DocsScopedByProject ==
    [][last'.op = "docs_delete" =>
          /\ documents' \subseteq documents
          /\ \A d \in documents \ documents' :
                d.id = last'.doc_id /\ d.project_id = last'.project_id
          /\ \A P \in KnownIds :
                list_documents(documents', P)
                    = {d \in documents' : d.project_id = P}]_vars

-----------------------------------------------------------------------------
(* Gatherer.scan_project walking a directory tree                         *)
(* (src/vox_unified/gatherer.py)                                          *)

\* files of a tree, and directories below the root on the way to a file
MaxFiles == 2
MaxDepth == 2

IGNORE_DIRS ==
    {<<"n", "o", "d", "e", "_", "m", "o", "d", "u", "l", "e", "s">>,
     <<".", "n", "e", "x", "t">>,
     <<"d", "i", "s", "t">>,
     <<"b", "u", "i", "l", "d">>,
     <<".", "v", "e", "r", "c", "e", "l">>,
     <<"v", "e", "n", "v">>,
     <<".", "v", "e", "n", "v">>,
     <<"_", "_", "p", "y", "c", "a", "c", "h", "e", "_", "_">>,
     <<".", "g", "i", "t">>,
     <<".", "g", "i", "t", "h", "u", "b">>,
     <<".", "v", "s", "c", "o", "d", "e">>,
     <<"t", "e", "s", "t", "s">>,
     <<"s", "t", "a", "t", "i", "c", "f", "i", "l", "e", "s">>,
     <<"s", "t", "a", "t", "i", "c">>,
     <<"v", "e", "n", "d", "o", "r">>,
     <<"p", "u", "b", "l", "i", "c">>,
     <<"a", "s", "s", "e", "t", "s">>,
     <<"l", "o", "c", "a", "l", "e", "s">>}

StrCursor == <<".", "c", "u", "r", "s", "o", "r">>
CodeExts == {<<".", "p", "y">>, <<".", "t", "s">>, <<".", "t", "s", "x">>, <<".", "j", "s">>, <<".", "j", "s", "x">>}
MdExt == <<".", "m", "d">>

\* the root scanned and its absolute path
ScanRoot == "/a"
AbsRoot == <<"/", "a">>

\* directory names met in a tree: a source directory, one of the ignore
\* set, a dot-directory outside the ignore set, and .cursor
DirSrc == <<"s", "r", "c">>
DirNodeModules == <<"n", "o", "d", "e", "_", "m", "o", "d", "u", "l", "e", "s">>
DirCache == <<".", "c", "a", "c", "h", "e">>
DirNames == {DirSrc, DirNodeModules, DirCache, StrCursor}

\* file names: with a code extension, markdown, and neither
FileNotes == <<"n", "o", "t", "e", "s", ".", "m", "d">>
FileData == <<"d", "a", "t", "a", ".", "t", "x", "t">>
FileNames == {FileA, FileNotes, FileData}

RECURSIVE DirPathsUpTo(_)
DirPathsUpTo(n) ==
    IF n = 0 THEN {<<>>}
    ELSE LET shorter == DirPathsUpTo(n - 1)
         IN  shorter \cup {Append(dirs, d) : dirs \in shorter, d \in DirNames}

\* a file of the tree: the directories from the root down to it and its name
FileEntries == {[dirs |-> dirs, name |-> name] :
                    dirs \in DirPathsUpTo(MaxDepth), name \in FileNames}

RECURSIVE TreesUpTo(_)
TreesUpTo(n) ==
    IF n = 0 THEN {{}}
    ELSE LET smaller == TreesUpTo(n - 1)
         IN  smaller \cup {tree \cup {e} : tree \in smaller, e \in FileEntries}

\* os.path.join of directory names
RECURSIVE JoinDirs(_)
JoinDirs(dirs) ==
    IF dirs = <<>> THEN <<>>
    ELSE IF Len(dirs) = 1 THEN Head(dirs)
    ELSE Head(dirs) \o <<"/">> \o JoinDirs(Tail(dirs))

\* dirpath as os.walk reports it
DirPath(dirs) == IF dirs = <<>> THEN AbsRoot ELSE AbsRoot \o <<"/">> \o JoinDirs(dirs)

\* os.path.relpath(os.path.join(dirpath, filename), abs_root)
RelativePath(dirs, filename) ==
    IF dirs = <<>> THEN filename ELSE JoinDirs(dirs) \o <<"/">> \o filename

\* os.path.splitext(filename)[1].lower(): from the last dot on, and empty
\* when there is no dot or only dots come before the last one
FileExt(filename) ==
    LET dots == {i \in 1..Len(filename) : filename[i] = "."}
    IN  IF dots = {} THEN <<>>
        ELSE LET last_dot == CHOOSE i \in dots : \A j \in dots : j <= i
             IN  IF \A j \in 1..(last_dot - 1) : filename[j] = "." THEN <<>>
                 ELSE [k \in 1..(Len(filename) - last_dot + 1) |->
                          Lower(filename[last_dot + k - 1])]

\* the items of one file that is read and parsed: a code file holds the one
\* function run, a markdown file one section
FileItems(dirs, filename) ==
    IF FileExt(filename) \in CodeExts
        THEN {SymbolItem(SymRun, RelativePath(dirs, filename))}
    ELSE IF FileExt(filename) = MdExt
        THEN {[MarkdownItem EXCEPT !.file_path = RelativePath(dirs, filename)]}
    ELSE {}

\* what goes wrong with a file: nothing, open or read raises, or parse_text
\* or split_text raises
Faults == {"none", "read", "parse"}

FaultOf(e) == IF "fault" \in DOMAIN e THEN e.fault ELSE "none"

\* mutant: no try around a file
ScanCatches_none(fault) == FALSE

\* the try of each branch ends with `except Exception: pass`
ScanCatches(fault) == TRUE

\* one file of a visited directory: a file with no recognised extension is
\* not opened; open, read, parse_text and md_splitter.split_text come before
\* the first append, so a file that raises there has added no item (a
\* markdown section here is under 1000 characters: recursive_splitter, the
\* one call made between appends, is not reached)
FileResult(e) ==
    IF FileExt(e.name) \notin CodeExts \cup {MdExt}
        THEN [raised |-> FALSE, items |-> {}]
    ELSE IF FaultOf(e) # "none"
        THEN [raised |-> ~ScanCatches(FaultOf(e)), items |-> {}]
    ELSE [raised |-> FALSE, items |-> FileItems(e.dirs, e.name)]

IsPrefix(dirs, longer) ==
    Len(dirs) <= Len(longer) /\ SubSeq(longer, 1, Len(dirs)) = dirs

\* dirnames[:] = [d for d in dirnames if d not in IGNORE_DIRS]
KeptDirs(dirnames) == {d \in dirnames : d \notin IGNORE_DIRS}

\* os.walk from the directory dirs down, top-down: the directories kept in
\* dirnames are the ones descended into; the files of a directory whose
\* dirpath contains .cursor are skipped.  The files the loop reaches:
RECURSIVE WalkFiles(_, _)
WalkFiles(tree, dirs) ==
    LET dirnames == {e.dirs[Len(dirs) + 1] :
                        e \in {f \in tree : IsPrefix(dirs, f.dirs)
                                            /\ Len(f.dirs) > Len(dirs)}}
        here == IF Contains(DirPath(dirs), StrCursor) THEN {}
                ELSE {f \in tree : f.dirs = dirs}
    IN  here \cup UNION {WalkFiles(tree, Append(dirs, d)) : d \in KeptDirs(dirnames)}

\* the items appended over the walk
WalkItems(tree, dirs) == UNION {FileResult(e).items : e \in WalkFiles(tree, dirs)}

\* an exception left the loop
WalkRaises(tree, dirs) == \E e \in WalkFiles(tree, dirs) : FileResult(e).raised

\* scan_project(root_path) over a tree: the items found, in no order
scan_project_tree(tree) == WalkItems(tree, <<>>)

InitScan ==
    /\ projects = {}
    /\ next_uuid = 0
    /\ documents = {}
    /\ next_doc = 0
    /\ cache = {}
    /\ vox_symbols = EmptyBag
    /\ vox_textdata = EmptyBag
    /\ symbols_v2 = EmptyBag
    /\ fs \in [{ScanRoot} -> TreesUpTo(MaxFiles)]
    /\ last = NoCall
    /\ pc = <<>>
    /\ loc = <<>>

ScanProject ==
    /\ last' = [op |-> "scan_project", root_path |-> ScanRoot,
                items |-> scan_project_tree(fs[ScanRoot])]
    /\ UNCHANGED <<registryVars, cache, vectorVars, symbols_v2, fs, procVars>>

NextScan == ScanProject

SpecScan == InitScan /\ [][NextScan]_vars

\* a directory name the scan is to skip: of the ignore set, or starting
\* with the marker character
SkippedName(d) == d \in IGNORE_DIRS \/ Head(d) = "."

\* the file e of the tree yielded an item
Yielded(e) ==
    \E item \in last.items : item.file_path = RelativePath(e.dirs, e.name)

\* C20: scan_project returns no item whose file lies below a directory of
\* the ignore set or one whose name starts with '.', at any depth, while a
\* file with a recognised extension outside such directories yields items.
C20_ScanSkipsIgnoredDirs ==
    last.op = "scan_project" =>
        \A e \in fs[ScanRoot] :
            LET below == \E i \in 1..Len(e.dirs) : SkippedName(e.dirs[i])
            IN  /\ Yielded(e) => ~below
                /\ (~below /\ FileExt(e.name) \in CodeExts \cup {MdExt}) => Yielded(e)

-----------------------------------------------------------------------------
(* PythonParser.parse_text over syntax trees                              *)
(* (src/vox_unified/gatherer.py)                                          *)

\* definitions at the top of a module, and levels of nesting below them
MaxTop == 2
MaxNest == 2

\* the names of the definitions in a tree
DefNames == {"Agent", "think", "run_system"}

\* node.type of the nodes of a tree: the two kinds of definition, and block
\* for every node that is neither
DefTypes == {"class_definition", "function_definition"}

\* a node: its type, the text of its name field (None where it has none)
\* and its children
Node(type, name, children) == [type |-> type, name |-> name, children |-> children]

NodeLabels == {<<type, name>> : type \in DefTypes, name \in DefNames}
                  \cup {<<"block", None>>}

\* the trees below a top-level node: every node has at most one child
RECURSIVE NodesUpTo(_)
NodesUpTo(depth) ==
    IF depth = 0 THEN {Node(l[1], l[2], <<>>) : l \in NodeLabels}
    ELSE LET below == NodesUpTo(depth - 1)
         IN  {Node(l[1], l[2], children) :
                 l \in NodeLabels, children \in {<<>>} \cup {<<n>> : n \in below}}

RECURSIVE SeqsUpTo(_, _)
SeqsUpTo(S, n) ==
    IF n = 0 THEN {<<>>}
    ELSE LET shorter == SeqsUpTo(S, n - 1)
         IN  shorter \cup {Append(s, x) : s \in shorter, x \in S}

\* tree.root_node of a parsed file
SyntaxTrees(top, nest) ==
    {Node("module", None, children) : children \in SeqsUpTo(NodesUpTo(nest), top)}

\* the file parse_text is given
ParsedFile == "test.py"

\* stype = SymbolType.METHOD if parent_name else SymbolType.FUNCTION
FunctionType(parent_name) == IF Truthy(parent_name) THEN "method" ELSE "function"

\* _traverse: the symbols appended for node and, in order, for its children,
\* which are visited with parent_name=current_name or parent_name
RECURSIVE traverse(_, _, _)
traverse(node, file_path, parent_name) ==
    LET has_name == node.type \in DefTypes /\ node.name # None
        current_name == IF has_name THEN node.name ELSE None
        symbol ==
            IF ~has_name THEN <<>>
            ELSE IF node.type = "class_definition"
                THEN <<[name |-> current_name, type |-> "class",
                        file_path |-> file_path, parent |-> parent_name]>>
            ELSE <<[name |-> current_name, type |-> FunctionType(parent_name),
                    file_path |-> file_path, parent |-> parent_name]>>
        next_parent == IF Truthy(current_name) THEN current_name ELSE parent_name
        RECURSIVE children_from(_)
        children_from(i) ==
            IF i > Len(node.children) THEN <<>>
            ELSE traverse(node.children[i], file_path, next_parent)
                     \o children_from(i + 1)
    IN  symbol \o children_from(1)

\* parse_text(code, file_path) with a working parser
parse_text(tree, file_path) == traverse(tree, file_path, None)

InitParse ==
    /\ projects = {}
    /\ next_uuid = 0
    /\ documents = {}
    /\ next_doc = 0
    /\ cache = {}
    /\ vox_symbols = EmptyBag
    /\ vox_textdata = EmptyBag
    /\ symbols_v2 = EmptyBag
    /\ fs \in [{ParsedFile} -> SyntaxTrees(MaxTop, MaxNest)]
    /\ last = NoCall
    /\ pc = <<>>
    /\ loc = <<>>

ParseText ==
    /\ last' = [op |-> "parse_text", file_path |-> ParsedFile,
                symbols |-> parse_text(fs[ParsedFile], ParsedFile)]
    /\ UNCHANGED <<registryVars, cache, vectorVars, symbols_v2, fs, procVars>>

NextParse == ParseText

SpecParse == InitParse /\ [][NextParse]_vars

\* the definitions of a tree in the order _traverse meets them, each with
\* the type and name of the nearest definition that encloses it
RECURSIVE Enclosures(_, _, _)
Enclosures(node, under_type, under_name) ==
    LET is_def == node.type \in DefTypes
        here == IF is_def
                THEN <<[type |-> node.type, name |-> node.name,
                        under_type |-> under_type, under_name |-> under_name]>>
                ELSE <<>>
        RECURSIVE below(_)
        below(i) ==
            IF i > Len(node.children) THEN <<>>
            ELSE Enclosures(node.children[i],
                            IF is_def THEN node.type ELSE under_type,
                            IF is_def THEN node.name ELSE under_name)
                     \o below(i + 1)
    IN  here \o below(1)

\* the tree of the example: class Agent with method think, and run_system
AgentTree ==
    Node("module", None,
         <<Node("class_definition", "Agent",
                <<Node("block", None, <<Node("function_definition", "think", <<>>)>>)>>),
           Node("function_definition", "run_system", <<>>)>>)

\* C21: parse_text makes a function definition a method whose parent is the
\* nearest enclosing named symbol exactly when it is nested directly under a
\* class, and a function without parent when no named symbol encloses it; a
\* class with one method plus one top-level function yields exactly those
\* three symbols.
C21_MethodIffUnderClass ==
    last.op = "parse_text" =>
        LET defs == Enclosures(fs[ParsedFile], "module", None)
            symbols == last.symbols
        IN  /\ Len(symbols) = Len(defs)
            /\ \A i \in 1..Len(defs) :
                  defs[i].type = "function_definition" =>
                      /\ symbols[i].name = defs[i].name
                      /\ symbols[i].type = "method"
                            <=> defs[i].under_type = "class_definition"
                      /\ defs[i].under_type = "class_definition" =>
                            symbols[i].parent = defs[i].under_name
                      /\ defs[i].under_type = "module" =>
                            /\ symbols[i].type = "function"
                            /\ symbols[i].parent = None
            /\ fs[ParsedFile] = AgentTree =>
                  symbols = <<[name |-> "Agent", type |-> "class",
                               file_path |-> ParsedFile, parent |-> None],
                              [name |-> "think", type |-> "method",
                               file_path |-> ParsedFile, parent |-> "Agent"],
                              [name |-> "run_system", type |-> "function",
                               file_path |-> ParsedFile, parent |-> None]>>

-----------------------------------------------------------------------------
(* scan_project over trees in which files fail to be read or parsed *)

\* files of a tree with faults
MaxScanned == 2

FaultDirs == {<<>>, <<DirSrc>>, <<DirNodeModules>>}

FaultEntries == {[dirs |-> dirs, name |-> name, fault |-> fault] :
                    dirs \in FaultDirs, name \in FileNames, fault \in Faults}

\* a path names one file
RECURSIVE FaultTreesUpTo(_)
FaultTreesUpTo(n) ==
    IF n = 0 THEN {{}}
    ELSE LET smaller == FaultTreesUpTo(n - 1)
         IN  smaller \cup
             {tree \cup {e} : <<tree, e>> \in
                 {te \in smaller \X FaultEntries :
                     \A f \in te[1] : f.dirs # te[2].dirs \/ f.name # te[2].name}}

InitScanFault ==
    /\ projects = {}
    /\ next_uuid = 0
    /\ documents = {}
    /\ next_doc = 0
    /\ cache = {}
    /\ vox_symbols = EmptyBag
    /\ vox_textdata = EmptyBag
    /\ symbols_v2 = EmptyBag
    /\ fs \in [{ScanRoot} -> FaultTreesUpTo(MaxScanned)]
    /\ last = NoCall
    /\ pc = <<>>
    /\ loc = <<>>

\* scan_project(root_path): it returns its items unless an exception left
\* the loop
ScanProjectFault ==
    /\ last' = IF WalkRaises(fs[ScanRoot], <<>>)
               THEN [op |-> "scan_project", root_path |-> ScanRoot,
                     outcome |-> "raised", items |-> {}]
               ELSE [op |-> "scan_project", root_path |-> ScanRoot,
                     outcome |-> "ok", items |-> scan_project_tree(fs[ScanRoot])]
    /\ UNCHANGED <<registryVars, cache, vectorVars, symbols_v2, fs, procVars>>

NextScanFault == ScanProjectFault

SpecScanFault == InitScanFault /\ [][NextScanFault]_vars

\* the files of the scanned tree that fail
FailingFiles == {e \in fs[ScanRoot] : FaultOf(e) # "none"}

\* C22: when reading or parsing a file fails during a scan, the scan still
\* completes, the failing file contributes no item, and the items of every
\* other recognised file are returned exactly as they would be without the
\* failing file.
C22_FailingFileSkipped ==
    last.op = "scan_project" =>
        /\ last.outcome = "ok"
        /\ \A e \in FailingFiles :
              \A item \in last.items : item.file_path # RelativePath(e.dirs, e.name)
        /\ last.items = scan_project_tree(fs[ScanRoot] \ FailingFiles)

\* a scan has met a source file that cannot be read and returned the item
\* of another file
C22_Witness ==
    /\ last.op = "scan_project"
    /\ \E e \in FailingFiles : e.dirs = <<>> /\ e.name = FileA /\ e.fault = "read"
    /\ \E item \in last.items : item.file_path = RelativePath(<<DirSrc>>, FileNotes)

-----------------------------------------------------------------------------
(* The embedding clients: EmbeddingEngine.get_embeddings                  *)
(* (src/core/embeddings.py) and get_ollama_embedding                      *)
(* (src/vox_unified/embeddings.py)                                        *)

\* texts in one call of get_embeddings
MaxTexts == 2

\* text[:8000]
PromptLimit == 8000
\* [0.0] * 768
EmbeddingDim == 768

DocumentPrefix == "search_document: "
QueryPrefix == "search_query: "

\* len(prefix)
PrefixLen(prefix) ==
    CASE prefix = DocumentPrefix -> 17
      [] prefix = QueryPrefix -> 14
      [] prefix = "" -> 0

\* A text: a prefix or none, then `lead` whitespace characters, then `body`
\* characters that are not whitespace
Text(prefix, lead, body) == [prefix |-> prefix, lead |-> lead, body |-> body]

TextLen(text) == PrefixLen(text.prefix) + text.lead + text.body

\* `not text.strip()`: whitespace is all there is
IsBlank(text) == text.prefix = "" /\ text.body = 0

\* text[:n], for n no shorter than a prefix
Slice(text, n) ==
    LET room == n - PrefixLen(text.prefix)
        lead == Min(text.lead, room)
    IN  Text(text.prefix, lead, Min(text.body, room - lead))

\* "empty"
StrEmpty == Text("", 0, 5)

\* the texts embedded: empty, short and long, with and without whitespace
\* in front
EmbedTexts == {Text("", 0, 0), Text("", 1, 0), Text("", 0, 1),
               Text("", 0, PromptLimit + 1), Text("", PromptLimit, 1)}

\* the provider's answer to a prompt, and the placeholder
ProviderVector(prompt) == [of |-> prompt, dim |-> EmbeddingDim]
ZeroVector == [of |-> Text("", 0, 0), dim |-> 0]

\* mutant: an item that fails is left out
OnProviderError_skip(embeddings) == embeddings

\* except Exception: embeddings.append([0.0] * 768)
OnProviderError(embeddings) == Append(embeddings, ZeroVector)

\* get_embeddings(texts) when the provider fails for the items at the
\* indices in failing: the vectors returned and the prompts sent
RECURSIVE get_embeddings_from(_, _, _, _, _)
get_embeddings_from(texts, failing, i, embeddings, prompts) ==
    IF i > Len(texts) THEN [ret |-> embeddings, prompts |-> prompts]
    ELSE LET text == IF IsBlank(texts[i]) THEN StrEmpty ELSE texts[i]
             safe_text == Slice(text, PromptLimit)
         IN  get_embeddings_from(texts, failing, i + 1,
                 IF i \in failing THEN OnProviderError(embeddings)
                 ELSE Append(embeddings, ProviderVector(safe_text)),
                 Append(prompts, safe_text))

get_embeddings(texts, failing) == get_embeddings_from(texts, failing, 1, <<>>, <<>>)

\* get_ollama_embedding(text, is_query=...): the prompt posted
OllamaPrompt(text, is_query) ==
    LET prefix == IF is_query THEN QueryPrefix ELSE DocumentPrefix
    IN  IF text.prefix = prefix THEN text ELSE Text(prefix, text.lead, text.body)

\* every error of the request is raised again as RuntimeError
get_ollama_embedding(text, is_query, provider_fails) ==
    [prompt |-> OllamaPrompt(text, is_query),
     raised |-> provider_fails,
     ret |-> IF provider_fails THEN ZeroVector
             ELSE ProviderVector(OllamaPrompt(text, is_query))]

\* VoxEngine.index_project and VoxEngine.ask calling get_embeddings
GetEmbeddings ==
    \E texts \in SeqsUpTo(EmbedTexts, MaxTexts) :
        \E failing \in SUBSET (1..Len(texts)) :
            LET call == get_embeddings(texts, failing)
            IN  /\ last' = [op |-> "get_embeddings", texts |-> texts,
                            failing |-> failing, ret |-> call.ret,
                            prompts |-> call.prompts, raised |-> FALSE]
                /\ UNCHANGED <<registryVars, cache, vectorVars, symbols_v2, fs,
                               procVars>>

\* VoxManager calling get_ollama_embedding on a text that carries no prefix
\* or the prefix of the call
GetOllamaEmbedding ==
    \E text \in EmbedTexts \cup {Text(DocumentPrefix, 0, 1), Text(QueryPrefix, 0, 1)},
       is_query \in BOOLEAN, provider_fails \in BOOLEAN :
        /\ text.prefix \in {"", IF is_query THEN QueryPrefix ELSE DocumentPrefix}
        /\ LET call == get_ollama_embedding(text, is_query, provider_fails)
           IN  last' = [op |-> "get_ollama_embedding", texts |-> <<text>>,
                        failing |-> IF provider_fails THEN {1} ELSE {},
                        ret |-> <<call.ret>>, prompts |-> <<call.prompt>>,
                        raised |-> call.raised]
        /\ UNCHANGED <<registryVars, cache, vectorVars, symbols_v2, fs, procVars>>

NextEmbed ==
    \/ GetEmbeddings
    \/ GetOllamaEmbedding

SpecEmbed == InitStore /\ [][NextEmbed]_vars

\* C23: get_embeddings(texts) returns exactly len(texts) vectors, the i-th
\* belonging to the i-th text, for every list and for every subset of items
\* the provider fails on: a placeholder stands for a failing item.
C23_OneVectorPerText ==
    last.op = "get_embeddings" =>
        /\ ~last.raised
        /\ Len(last.ret) = Len(last.texts)
        /\ \A i \in 1..Len(last.texts) :
              IF i \in last.failing THEN last.ret[i] = ZeroVector
              ELSE last.ret[i] = ProviderVector(last.prompts[i])
        /\ \A i \in 1..Len(last.texts) :
              last.prompts[i] \in {StrEmpty, last.texts[i], Slice(last.texts[i], PromptLimit)}

\* two different texts were embedded and the provider failed on the first
C23_Witness ==
    /\ last.op = "get_embeddings"
    /\ Len(last.texts) = 2
    /\ last.texts[1] # last.texts[2]
    /\ last.failing = {1}
    /\ last.ret[2] # ZeroVector

\* C24: every request sent to the embedding provider carries a text that is
\* not empty or whitespace-only and is at most 8000 characters long.
C24_PromptsBoundedNotBlank ==
    last.op \in {"get_embeddings", "get_ollama_embedding"} =>
        \A i \in 1..Len(last.prompts) :
            /\ ~IsBlank(last.prompts[i])
            /\ TextLen(last.prompts[i]) <= PromptLimit

-----------------------------------------------------------------------------
(* Claims about index_build, under Spec *)

\* the text docs_add embeds and stores for a document
DocText(d) ==
    IF TruthyS(d.title) THEN StrTitle \o d.title \o NL \o d.content ELSE d.content

\* C25: after docs_delete(P, d) followed by index_build(P) with its default
\* arguments, the vector store no longer holds the text row that docs_add
\* created for document d.
C25_DeletedDocPurged ==
    [][(/\ last.op = "docs_delete"
        /\ last'.op = "index_build"
        /\ last'.project_id = last.project_id
        /\ last'.type = "all"
        /\ ~last'.force
        /\ last'.outcome # "not found")
       => \A d \in last.removed :
             d.project_id = last.project_id =>
                ~\E c \in Copies(vox_textdata') :
                    c[1].project_id = d.project_id /\ c[1].content = DocText(d)]_vars


RowsOfProject(table, project_id) == {c \in Copies(table) : c[1].project_id = project_id}

\* C26: index_build(P, type=symbolic, force) leaves P's text-chunk rows as
\* they were and index_build(P, type=semantic, force) leaves P's symbol rows
\* as they were, with force and without.
C26_OtherKindUntouched ==
    [][(last'.op = "index_build" /\ last'.outcome # "not found") =>
          /\ last'.type = "symbolic" =>
                RowsOfProject(vox_textdata', last'.project_id)
                    = RowsOfProject(vox_textdata, last'.project_id)
          /\ last'.type = "semantic" =>
                RowsOfProject(vox_symbols', last'.project_id)
                    = RowsOfProject(vox_symbols, last'.project_id)]_vars


\* the rows a complete run over project_id would leave: one symbol row per
\* symbol item of the scan, one text row per other item and per document
CompleteRun(project_id, symbol_rows, text_rows) ==
    LET items == scan_project(fs[get_project(projects, project_id).path])
        symbol_items == {i \in 1..Len(items) : items[i].type = StrSymbolSource}
    IN  /\ Cardinality(symbol_rows) = Cardinality(symbol_items)
        /\ Cardinality(text_rows) = Len(items) - Cardinality(symbol_items)
               + Cardinality(list_documents(documents, project_id))

\* C27: when index_build(P, force=True) fails partway, P's vector rows
\* afterwards are the complete set from before the call or the complete set
\* of the new run, never none and never a part.
C27_ForcedFailureAllOrNothing ==
    [][(/\ last'.op = "index_build"
        /\ last'.force
        /\ last'.outcome \notin {"ok", "not found"})
       => \/ /\ RowsOfProject(vox_symbols', last'.project_id)
                    = RowsOfProject(vox_symbols, last'.project_id)
             /\ RowsOfProject(vox_textdata', last'.project_id)
                    = RowsOfProject(vox_textdata, last'.project_id)
          \/ CompleteRun(last'.project_id,
                         RowsOfProject(vox_symbols', last'.project_id),
                         RowsOfProject(vox_textdata', last'.project_id))]_vars

-----------------------------------------------------------------------------
(* VoxManager.project_delete run while index_build runs: run 1 is the     *)
(* caller of index_build, run 2 the caller of project_delete              *)

IndexRun == 1
DeleteRun == 2

\* the project both calls name, and the document added to it
SharedProject == UuidSeq[1]
SharedDoc == CHOOSE d \in DocInputs : TruthyS(d.content) /\ d.provider_ok

\* the state after project_create("/a") and a docs_add to the new project
InitDelConc ==
    /\ projects = {ProjectRow(SharedProject, Basename("/a"), "/a")}
    /\ next_uuid = 1
    /\ documents = {DocumentRow(1, SharedProject, SharedDoc.type, SharedDoc.content,
                                SharedDoc.title, SharedDoc.from_file)}
    /\ next_doc = 1
    /\ cache = {}
    /\ vox_symbols = EmptyBag
    /\ vox_textdata = save_text_chunks(EmptyBag,
                          <<[content |-> StrTitle \o SharedDoc.title \o NL
                                            \o SharedDoc.content,
                             type |-> SharedDoc.type]>>,
                          SharedProject, <<SharedDoc.emb>>)
    /\ symbols_v2 = EmptyBag
    /\ fs \in [Paths -> FsStates]
    /\ last = NoCall
    /\ pc = [r \in Runs |-> "idle"]
    /\ loc = [r \in Runs |-> NoLocals]

\* the call project_delete(project_id)
DeleteBegin ==
    /\ pc[DeleteRun] = "idle"
    /\ loc' = [loc EXCEPT ![DeleteRun].project_id = SharedProject]
    /\ Goto(DeleteRun, "delete_project")
    /\ UNCHANGED <<registryVars, cache, vectorVars, symbols_v2, fs, last>>

\* self.datalayer.local.delete_project(project_id)
DeleteRegistry ==
    /\ pc[DeleteRun] = "delete_project"
    /\ projects' = delete_project(projects, loc[DeleteRun].project_id)
    /\ documents' = delete_project_cascade(documents, loc[DeleteRun].project_id)
    /\ Goto(DeleteRun, "delete_project_data")
    /\ UNCHANGED <<next_uuid, next_doc, cache, vectorVars, symbols_v2, fs, last, loc>>

\* self.datalayer.vector.delete_project_data(project_id)
DeleteVector ==
    /\ pc[DeleteRun] = "delete_project_data"
    /\ vox_symbols' = delete_project_data_symbols(vox_symbols, loc[DeleteRun].project_id)
    /\ vox_textdata' = delete_project_data_text(vox_textdata, loc[DeleteRun].project_id)
    /\ Goto(DeleteRun, "invalidate")
    /\ UNCHANGED <<registryVars, cache, symbols_v2, fs, last, loc>>

\* self.cache.invalidate(project_id), and the call returns
DeleteCache ==
    /\ pc[DeleteRun] = "invalidate"
    /\ cache' = cache_invalidate(cache, loc[DeleteRun].project_id, None)
    /\ Goto(DeleteRun, "deleted")
    /\ last' = [op |-> "project_delete", run |-> DeleteRun,
                project_id |-> loc[DeleteRun].project_id, force |-> FALSE,
                outcome |-> "ok"]
    /\ UNCHANGED <<registryVars, vectorVars, symbols_v2, fs, loc>>

DeleteStep ==
    \/ DeleteBegin
    \/ DeleteRegistry
    \/ DeleteVector
    \/ DeleteCache

NextDelConc ==
    \/ IndexStep(IndexRun)
    \/ DeleteStep

SpecDelConc == InitDelConc /\ [][NextDelConc]_vars

\* C28: project_delete(P) runs while index_build(P) runs, their store
\* operations interleaved in any way: once both have finished, the vector
\* store and the cache hold no row for P.
C28_DeleteWinsOverIndex ==
    (pc[DeleteRun] = "deleted" /\ pc[IndexRun] = "idle" /\ last.op = "index_build")
        => /\ RowsOfProject(vox_symbols, SharedProject) = {}
           /\ RowsOfProject(vox_textdata, SharedProject) = {}
           /\ {e \in cache : e.project_id = SharedProject} = {}

-----------------------------------------------------------------------------
(* VoxManager.project_create run by two callers at once: the lookup by    *)
(* path and the INSERT are two statements, each in its own connection     *)

InitCreateConc ==
    /\ projects = {}
    /\ next_uuid = 0
    /\ documents = {}
    /\ next_doc = 0
    /\ cache = {}
    /\ vox_symbols = EmptyBag
    /\ vox_textdata = EmptyBag
    /\ symbols_v2 = EmptyBag
    /\ fs = [p \in Paths |-> "one"]
    /\ last = NoCall
    /\ pc = [r \in Runs |-> "idle"]
    /\ loc = [r \in Runs |-> NoLocals]

\* the run returns ret, or raises it
CreateReturn(r, ret) ==
    /\ pc' = [pc EXCEPT ![r] = "returned"]
    /\ loc' = [loc EXCEPT ![r].project_id = ret]
    /\ last' = [op |-> "project_create", run |-> r, path |-> loc[r].path, ret |-> ret]

\* the call project_create(path), up to os.path.exists
CreateBegin(r) ==
    /\ pc[r] = "idle"
    /\ \E path \in Paths \cup {MissingPath} :
          IF ~PathExists(path)
          THEN /\ pc' = [pc EXCEPT ![r] = "returned"]
               /\ loc' = [loc EXCEPT ![r] = [NoLocals EXCEPT !.path = path]]
               /\ last' = [op |-> "project_create", run |-> r, path |-> path,
                           ret |-> None]
          ELSE /\ loc' = [loc EXCEPT ![r] = [NoLocals EXCEPT !.path = path]]
               /\ Goto(r, "get_project_by_path")
               /\ UNCHANGED last
    /\ UNCHANGED <<registryVars, cache, vectorVars, symbols_v2, fs>>

\* existing = self.datalayer.local.get_project_by_path(abs_path)
CreateLookup(r) ==
    /\ pc[r] = "get_project_by_path"
    /\ LET existing == get_project_by_path(projects, loc[r].path)
       IN  IF existing # NoProject THEN CreateReturn(r, existing.id)
           ELSE /\ Goto(r, "add_project")
                /\ UNCHANGED <<last, loc>>
    /\ UNCHANGED <<registryVars, cache, vectorVars, symbols_v2, fs>>

\* uuid4 and self.datalayer.local.add_project(project_id, name, abs_path)
CreateInsert(r) ==
    /\ pc[r] = "add_project"
    /\ next_uuid < MaxProjects
    /\ LET project_id == UuidSeq[next_uuid + 1]
       IN  /\ next_uuid' = next_uuid + 1
           /\ projects' = add_project(projects, project_id, Basename(loc[r].path),
                                      loc[r].path)
           /\ CreateReturn(r, IF add_project_raises(projects, project_id, loc[r].path)
                              THEN "IntegrityError" ELSE project_id)
    /\ UNCHANGED <<documents, next_doc, cache, vectorVars, symbols_v2, fs>>

\* the caller calls again
CreateAgain(r) ==
    /\ pc[r] = "returned"
    /\ pc' = [pc EXCEPT ![r] = "idle"]
    /\ loc' = [loc EXCEPT ![r] = NoLocals]
    /\ UNCHANGED <<registryVars, cache, vectorVars, symbols_v2, fs, last>>

CreateStep(r) ==
    \/ CreateBegin(r)
    \/ CreateLookup(r)
    \/ CreateInsert(r)
    \/ CreateAgain(r)

NextCreateConc == \E r \in Runs : CreateStep(r)

SpecCreateConc == InitCreateConc /\ [][NextCreateConc]_vars

\* C29: two concurrent project_create calls for the same path, which was
\* not registered, return the same project id, neither raises, and one
\* project row with that path exists afterwards.
C29_ConcurrentCreateSameId ==
    (/\ \A r \in Runs : pc[r] = "returned"
     /\ loc[1].path = loc[2].path
     /\ PathExists(loc[1].path))
        => /\ loc[1].project_id = loc[2].project_id
           /\ \A r \in Runs : loc[r].project_id # "IntegrityError"
           /\ Cardinality({p \in projects : p.path = loc[1].path}) = 1

-----------------------------------------------------------------------------
(* Claims about Storage.search_hybrid, under SpecStore *)

LowerAll(s) == [i \in 1..Len(s) |-> Lower(s[i])]

\* the name of the row contains, whatever the case, a word of the query
\* that is longer than 3 characters
HasLongWord(row, query_text) ==
    LET words == Split(query_text)
    IN  \E k \in 1..Len(words) :
            Len(words[k]) > 3 /\ Contains(LowerAll(row.name), LowerAll(words[k]))

\* a word of the query holds _ or %, which LIKE reads as wildcards
HasWildcard(query_text) ==
    \E k \in 1..Len(query_text) : query_text[k] \in {"_", "%"}

HybridOrderAndFilter ==
    /\ Len(last.ret) <= last.limit
    /\ \A i, j \in Positions(last.ret) :
          i < j =>
              /\ HasLongWord(last.rows[j], last.query)
                    => HasLongWord(last.rows[i], last.query)
              /\ (HasLongWord(last.rows[i], last.query)
                    = HasLongWord(last.rows[j], last.query))
                    => last.ret[i].distance <= last.ret[j].distance
    /\ \A i \in Positions(last.ret) :
          /\ last.ret[i].name \notin {StrMeta, StrAppConfig}
          /\ ~StartsWith(last.ret[i].file_path, <<"t", "e", "s", "t", "s", "/">>)

====
